---- MODULE Spec2Model ----
(***************************************************************************)
(* A model of the NaverBook metadata source: NaverBook.identify,           *)
(* NaverBook.download_cover (src/__init__.py) and the detail-page Worker   *)
(* (src/worker.py).                                                        *)
(*                                                                         *)
(* Text is a sequence of one-character strings.  An optional value is a    *)
(* sequence of length at most one: None is <<>> and Some(x) is <<x>>.      *)
(* A local variable of the source is a parameter of the operator that      *)
(* models the code after its assignment.                                   *)
(***************************************************************************)
EXTENDS Integers, Sequences, FiniteSets, TLC

None == <<>>
Some(x) == <<x>>

(* ---------------------------------------------------------------------- *)
(* Python string primitives used by the source.                            *)
(* ---------------------------------------------------------------------- *)

SliceLo(i) == IF i < 0 THEN 0 ELSE i
SliceHi(s, j) == IF j > Len(s) THEN Len(s) ELSE j

\* s[i:j] with 0-based, end-exclusive indices, clipped like a Python slice.
Slice(s, i, j) ==
    IF SliceHi(s, j) <= SliceLo(i) THEN <<>>
    ELSE SubSeq(s, SliceLo(i) + 1, SliceHi(s, j))

\* str.find(c): 0-based position of the first c, -1 when there is none.
Find(s, c) ==
    IF \E i \in 1..Len(s) : s[i] = c
    THEN (CHOOSE i \in 1..Len(s) : s[i] = c /\ \A j \in 1..(i-1) : s[j] # c) - 1
    ELSE -1

\* 0-based position of the last c, -1 when there is none.
RFind(s, c) ==
    IF \E i \in 1..Len(s) : s[i] = c
    THEN (CHOOSE i \in 1..Len(s) : s[i] = c /\ \A j \in (i+1)..Len(s) : s[j] # c) - 1
    ELSE -1

\* str.count(c)
Count(s, c) == Cardinality({i \in 1..Len(s) : s[i] = c})

\* <<s[:p], c, s[p+1:]>>
SplitAt(s, c, p) == <<Slice(s, 0, p), <<c>>, Slice(s, p + 1, Len(s))>>

\* str.partition(c) -> <<head, sep, tail>>; <<s, "", "">> when c is absent.
Partition(s, c) ==
    IF Find(s, c) = -1 THEN <<s, <<>>, <<>>>> ELSE SplitAt(s, c, Find(s, c))

\* str.rpartition(c) -> <<head, sep, tail>>; <<"", "", s>> when c is absent.
RPartition(s, c) ==
    IF RFind(s, c) = -1 THEN <<<<>>, <<>>, s>> ELSE SplitAt(s, c, RFind(s, c))

\* the characters `\s` of an `re` pattern without re.UNICODE matches, which
\* are also what a byte string's strip() and split() take for blanks
AsciiWhitespace == {" ", "\t", "\n", "", "\f", "\r"}

\* the Unicode spaces beyond U+00FF, which no byte string holds
WideBlanks ==
    {"U+1680", "U+180E", "U+2000", "U+2001", "U+2002", "U+2003", "U+2004",
     "U+2005", "U+2006", "U+2007", "U+2008", "U+2009", "U+200A", "U+2028",
     "U+2029", "U+202F", "U+205F", "U+3000"}

\* unicode.isspace(): the ASCII blanks, the separators U+001C..U+001F and
\* the Unicode spaces, each of these written as its code point
Whitespace ==
    AsciiWhitespace \cup {"", "", "", ""} \cup {"U+0085", "U+00A0"} \cup WideBlanks

IsSpace(c) == c \in Whitespace

\* str.strip(chars): s from its first to its last character outside chars
StripChars(s, chars) ==
    IF \A i \in 1..Len(s) : s[i] \in chars THEN <<>>
    ELSE SubSeq(s,
                CHOOSE i \in 1..Len(s) :
                    s[i] \notin chars /\ \A j \in 1..(i-1) : s[j] \in chars,
                CHOOSE i \in 1..Len(s) :
                    s[i] \notin chars /\ \A j \in (i+1)..Len(s) : s[j] \in chars)

\* unicode.strip()
Strip(s) == StripChars(s, Whitespace)

\* str.endswith(c)
EndsWith(s, c) == Len(s) > 0 /\ s[Len(s)] = c

Digits == {"0", "1", "2", "3", "4", "5", "6", "7", "8", "9"}

DigitVal(c) ==
    CASE c = "0" -> 0 [] c = "1" -> 1 [] c = "2" -> 2 [] c = "3" -> 3
      [] c = "4" -> 4 [] c = "5" -> 5 [] c = "6" -> 6 [] c = "7" -> 7
      [] c = "8" -> 8 [] c = "9" -> 9

RECURSIVE DecimalVal(_)
DecimalVal(s) ==
    IF s = <<>> THEN 0
    ELSE 10 * DecimalVal(SubSeq(s, 1, Len(s) - 1)) + DigitVal(s[Len(s)])

IsDigitRun(s) == Len(s) > 0 /\ \A i \in 1..Len(s) : s[i] \in Digits

\* the integer a run of decimal digits with an optional sign denotes, None
\* for any other text
SignedVal(t) ==
    IF IsDigitRun(t) THEN Some(DecimalVal(t))
    ELSE IF Len(t) > 1 /\ t[1] = "-" /\ IsDigitRun(Tail(t))
         THEN Some(0 - DecimalVal(Tail(t)))
    ELSE IF Len(t) > 1 /\ t[1] = "+" /\ IsDigitRun(Tail(t))
         THEN Some(DecimalVal(Tail(t)))
    ELSE None

\* The decimal digits of the Unicode database of Python 2.7 (5.2.0), ten to
\* a row in the order of their values, each written as its code point; the
\* first row is ASCII.  U+19DA, with the value 1, is a digit outside the
\* rows.
UnicodeDigitRows == <<
    <<"0", "1", "2", "3", "4", "5", "6", "7", "8", "9">>,
    <<"U+0660", "U+0661", "U+0662", "U+0663", "U+0664", "U+0665", "U+0666", "U+0667", "U+0668", "U+0669">>,
    <<"U+06F0", "U+06F1", "U+06F2", "U+06F3", "U+06F4", "U+06F5", "U+06F6", "U+06F7", "U+06F8", "U+06F9">>,
    <<"U+07C0", "U+07C1", "U+07C2", "U+07C3", "U+07C4", "U+07C5", "U+07C6", "U+07C7", "U+07C8", "U+07C9">>,
    <<"U+0966", "U+0967", "U+0968", "U+0969", "U+096A", "U+096B", "U+096C", "U+096D", "U+096E", "U+096F">>,
    <<"U+09E6", "U+09E7", "U+09E8", "U+09E9", "U+09EA", "U+09EB", "U+09EC", "U+09ED", "U+09EE", "U+09EF">>,
    <<"U+0A66", "U+0A67", "U+0A68", "U+0A69", "U+0A6A", "U+0A6B", "U+0A6C", "U+0A6D", "U+0A6E", "U+0A6F">>,
    <<"U+0AE6", "U+0AE7", "U+0AE8", "U+0AE9", "U+0AEA", "U+0AEB", "U+0AEC", "U+0AED", "U+0AEE", "U+0AEF">>,
    <<"U+0B66", "U+0B67", "U+0B68", "U+0B69", "U+0B6A", "U+0B6B", "U+0B6C", "U+0B6D", "U+0B6E", "U+0B6F">>,
    <<"U+0BE6", "U+0BE7", "U+0BE8", "U+0BE9", "U+0BEA", "U+0BEB", "U+0BEC", "U+0BED", "U+0BEE", "U+0BEF">>,
    <<"U+0C66", "U+0C67", "U+0C68", "U+0C69", "U+0C6A", "U+0C6B", "U+0C6C", "U+0C6D", "U+0C6E", "U+0C6F">>,
    <<"U+0CE6", "U+0CE7", "U+0CE8", "U+0CE9", "U+0CEA", "U+0CEB", "U+0CEC", "U+0CED", "U+0CEE", "U+0CEF">>,
    <<"U+0D66", "U+0D67", "U+0D68", "U+0D69", "U+0D6A", "U+0D6B", "U+0D6C", "U+0D6D", "U+0D6E", "U+0D6F">>,
    <<"U+0E50", "U+0E51", "U+0E52", "U+0E53", "U+0E54", "U+0E55", "U+0E56", "U+0E57", "U+0E58", "U+0E59">>,
    <<"U+0ED0", "U+0ED1", "U+0ED2", "U+0ED3", "U+0ED4", "U+0ED5", "U+0ED6", "U+0ED7", "U+0ED8", "U+0ED9">>,
    <<"U+0F20", "U+0F21", "U+0F22", "U+0F23", "U+0F24", "U+0F25", "U+0F26", "U+0F27", "U+0F28", "U+0F29">>,
    <<"U+1040", "U+1041", "U+1042", "U+1043", "U+1044", "U+1045", "U+1046", "U+1047", "U+1048", "U+1049">>,
    <<"U+1090", "U+1091", "U+1092", "U+1093", "U+1094", "U+1095", "U+1096", "U+1097", "U+1098", "U+1099">>,
    <<"U+17E0", "U+17E1", "U+17E2", "U+17E3", "U+17E4", "U+17E5", "U+17E6", "U+17E7", "U+17E8", "U+17E9">>,
    <<"U+1810", "U+1811", "U+1812", "U+1813", "U+1814", "U+1815", "U+1816", "U+1817", "U+1818", "U+1819">>,
    <<"U+1946", "U+1947", "U+1948", "U+1949", "U+194A", "U+194B", "U+194C", "U+194D", "U+194E", "U+194F">>,
    <<"U+19D0", "U+19D1", "U+19D2", "U+19D3", "U+19D4", "U+19D5", "U+19D6", "U+19D7", "U+19D8", "U+19D9">>,
    <<"U+1A80", "U+1A81", "U+1A82", "U+1A83", "U+1A84", "U+1A85", "U+1A86", "U+1A87", "U+1A88", "U+1A89">>,
    <<"U+1A90", "U+1A91", "U+1A92", "U+1A93", "U+1A94", "U+1A95", "U+1A96", "U+1A97", "U+1A98", "U+1A99">>,
    <<"U+1B50", "U+1B51", "U+1B52", "U+1B53", "U+1B54", "U+1B55", "U+1B56", "U+1B57", "U+1B58", "U+1B59">>,
    <<"U+1BB0", "U+1BB1", "U+1BB2", "U+1BB3", "U+1BB4", "U+1BB5", "U+1BB6", "U+1BB7", "U+1BB8", "U+1BB9">>,
    <<"U+1C40", "U+1C41", "U+1C42", "U+1C43", "U+1C44", "U+1C45", "U+1C46", "U+1C47", "U+1C48", "U+1C49">>,
    <<"U+1C50", "U+1C51", "U+1C52", "U+1C53", "U+1C54", "U+1C55", "U+1C56", "U+1C57", "U+1C58", "U+1C59">>,
    <<"U+A620", "U+A621", "U+A622", "U+A623", "U+A624", "U+A625", "U+A626", "U+A627", "U+A628", "U+A629">>,
    <<"U+A8D0", "U+A8D1", "U+A8D2", "U+A8D3", "U+A8D4", "U+A8D5", "U+A8D6", "U+A8D7", "U+A8D8", "U+A8D9">>,
    <<"U+A900", "U+A901", "U+A902", "U+A903", "U+A904", "U+A905", "U+A906", "U+A907", "U+A908", "U+A909">>,
    <<"U+A9D0", "U+A9D1", "U+A9D2", "U+A9D3", "U+A9D4", "U+A9D5", "U+A9D6", "U+A9D7", "U+A9D8", "U+A9D9">>,
    <<"U+AA50", "U+AA51", "U+AA52", "U+AA53", "U+AA54", "U+AA55", "U+AA56", "U+AA57", "U+AA58", "U+AA59">>,
    <<"U+ABF0", "U+ABF1", "U+ABF2", "U+ABF3", "U+ABF4", "U+ABF5", "U+ABF6", "U+ABF7", "U+ABF8", "U+ABF9">>,
    <<"U+FF10", "U+FF11", "U+FF12", "U+FF13", "U+FF14", "U+FF15", "U+FF16", "U+FF17", "U+FF18", "U+FF19">>,
    <<"U+104A0", "U+104A1", "U+104A2", "U+104A3", "U+104A4", "U+104A5", "U+104A6", "U+104A7", "U+104A8", "U+104A9">>,
    <<"U+1D7CE", "U+1D7CF", "U+1D7D0", "U+1D7D1", "U+1D7D2", "U+1D7D3", "U+1D7D4", "U+1D7D5", "U+1D7D6", "U+1D7D7">>,
    <<"U+1D7D8", "U+1D7D9", "U+1D7DA", "U+1D7DB", "U+1D7DC", "U+1D7DD", "U+1D7DE", "U+1D7DF", "U+1D7E0", "U+1D7E1">>,
    <<"U+1D7E2", "U+1D7E3", "U+1D7E4", "U+1D7E5", "U+1D7E6", "U+1D7E7", "U+1D7E8", "U+1D7E9", "U+1D7EA", "U+1D7EB">>,
    <<"U+1D7EC", "U+1D7ED", "U+1D7EE", "U+1D7EF", "U+1D7F0", "U+1D7F1", "U+1D7F2", "U+1D7F3", "U+1D7F4", "U+1D7F5">>,
    <<"U+1D7F6", "U+1D7F7", "U+1D7F8", "U+1D7F9", "U+1D7FA", "U+1D7FB", "U+1D7FC", "U+1D7FD", "U+1D7FE", "U+1D7FF">>>>

UnicodeDigits ==
    {UnicodeDigitRows[r][i] : r \in 1..Len(UnicodeDigitRows), i \in 1..10}
        \cup {"U+19DA"}

\* the ASCII digit of the value of a Unicode decimal digit
DecimalOf(c) ==
    IF c = "U+19DA" THEN "1"
    ELSE UnicodeDigitRows[1][CHOOSE i \in 1..10 :
             \E r \in 1..Len(UnicodeDigitRows) : UnicodeDigitRows[r][i] = c]

\* What int() and float() do first to a unicode text: every Unicode blank
\* becomes a blank and every Unicode decimal digit the ASCII digit of its
\* value.  Any other character stays and fails the parse that follows.
EncodeDecimal(text) ==
    [i \in 1..Len(text) |->
        IF text[i] \in Digits THEN text[i]
        ELSE IF IsSpace(text[i]) THEN " "
        ELSE IF text[i] \in UnicodeDigits THEN DecimalOf(text[i])
        ELSE text[i]]

\* int() of a byte string b of Python 2: the blanks of a byte string are
\* stripped, and those between the sign and the digits are skipped as well;
\* None stands for ValueError
IntOfBytes(b) ==
    IF \E i \in 1..Len(b) : b[i] \in Whitespace \ AsciiWhitespace THEN None
    ELSE IF Strip(b) # <<>> /\ Strip(b)[1] \in {"+", "-"}
    THEN SignedVal(<<Strip(b)[1]>> \o Strip(Tail(Strip(b))))
    ELSE SignedVal(Strip(b))

\* int(text) of a unicode text
ParseInt(text) == IntOfBytes(EncodeDecimal(text))

\* int(info.getheader('Content-Length')) of line 319: the header is the byte
\* string the HTTP library hands out; a text that holds a digit or a blank
\* beyond U+00FF can only be a unicode text and is read as one
HeaderInt(header) ==
    IF \E i \in 1..Len(header) :
           header[i] \in WideBlanks \cup (UnicodeDigits \ Digits)
    THEN ParseInt(header)
    ELSE IntOfBytes(header)

RECURSIVE GCD(_, _)
GCD(a, b) == IF b = 0 THEN a ELSE GCD(b, a % b)

\* A float is kept exact, as <<numerator, denominator>> in lowest terms with
\* a positive denominator; <<1, 0>> and <<-1, 0>> are inf and -inf, <<0, 0>>
\* is nan.  The rounding of a decimal to the nearest double is not modelled.
Ratio(n, d) ==
    IF d = 0 THEN <<IF n > 0 THEN 1 ELSE IF n < 0 THEN -1 ELSE 0, 0>>
    ELSE <<n \div GCD(IF n < 0 THEN 0 - n ELSE n, d),
           d \div GCD(IF n < 0 THEN 0 - n ELSE n, d)>>

RECURSIVE Pow10(_)
Pow10(k) == IF k = 0 THEN 1 ELSE 10 * Pow10(k - 1)

\* t is the word whose i-th letter is in letters[i], in either case
FoldsTo(t, letters) ==
    Len(t) = Len(letters) /\ \A i \in 1..Len(t) : t[i] \in letters[i]

\* the 0-based position of the exponent marker of u, Len(u) without one
ExpPos(u) ==
    IF \E i \in 1..Len(u) : u[i] \in {"e", "E"}
    THEN (CHOOSE i \in 1..Len(u) :
              u[i] \in {"e", "E"} /\ \A j \in 1..(i-1) : u[j] \notin {"e", "E"}) - 1
    ELSE Len(u)

\* the digits of m with at most one point among them, at least one digit:
\* Some(<<the digits read as an integer, the number of digits after the
\* point>>), None for any other text
Mantissa(m) ==
    IF Find(m, ".") = -1
    THEN (IF IsDigitRun(m) THEN Some(<<DecimalVal(m), 0>>) ELSE None)
    ELSE IF IsDigitRun(Slice(m, 0, Find(m, ".")) \o Slice(m, Find(m, ".") + 1, Len(m)))
         THEN Some(<<DecimalVal(Slice(m, 0, Find(m, "."))
                                    \o Slice(m, Find(m, ".") + 1, Len(m))),
                     Len(m) - Find(m, ".") - 1>>)
    ELSE None

\* sign * digits * 10^(exp - places)
Scaled(sign, mant, exp) ==
    IF mant = None \/ exp = None THEN None
    ELSE IF exp[1] >= mant[1][2]
         THEN Some(Ratio(sign * mant[1][1] * Pow10(exp[1] - mant[1][2]), 1))
    ELSE Some(Ratio(sign * mant[1][1], Pow10(mant[1][2] - exp[1])))

\* float() of a text u that had the given sign in front: inf, infinity and
\* nan in any case, or digits with an optional point and an optional
\* exponent
UnsignedFloat(sign, u) ==
    IF FoldsTo(u, <<{"i", "I"}, {"n", "N"}, {"f", "F"}>>)
          \/ FoldsTo(u, <<{"i", "I"}, {"n", "N"}, {"f", "F"}, {"i", "I"},
                          {"n", "N"}, {"i", "I"}, {"t", "T"}, {"y", "Y"}>>)
    THEN Some(<<sign, 0>>)
    ELSE IF FoldsTo(u, <<{"n", "N"}, {"a", "A"}, {"n", "N"}>>) THEN Some(<<0, 0>>)
    ELSE Scaled(sign, Mantissa(Slice(u, 0, ExpPos(u))),
                IF ExpPos(u) = Len(u) THEN Some(0)
                ELSE SignedVal(Slice(u, ExpPos(u) + 1, Len(u))))

\* the float a stripped byte string denotes: an optional sign and an
\* unsigned float
SignedFloat(b) ==
    IF b # <<>> /\ b[1] \in {"+", "-"}
    THEN UnsignedFloat(IF b[1] = "-" THEN -1 ELSE 1, Tail(b))
    ELSE UnsignedFloat(1, b)

\* float(text) of a unicode text: None stands for ValueError, Some(<<n, d>>)
\* for the number.  Numbers are within the range of Int that TLC evaluates.
ParseFloat(text) == SignedFloat(Strip(EncodeDecimal(text)))

(* ---------------------------------------------------------------------- *)
(* Worker.parse_title_series (src/worker.py 202-252)                       *)
(* ---------------------------------------------------------------------- *)

\* the while loop of lines 231-234: re-absorb parenthesised groups of the
\* title until series_info has as many ')' as '('.
RECURSIVE AbsorbGroups(_, _)

\* lines 232-234, the body of the loop
AbsorbGroup(title_split, series_info) ==
    AbsorbGroups(Strip(title_split[1]), title_split[3] \o <<"(">> \o series_info)

AbsorbGroups(title, series_info) ==
    IF Count(series_info, ")") = Count(series_info, "(")
    THEN <<title, series_info>>
    ELSE AbsorbGroup(RPartition(title, "("), series_info)

\* lines 241-246: `if series_index.find('-'):` is true for every result of
\* find except 0, so a leading '-' is the one case left unpartitioned.
RangeStart(series_index) ==
    IF Find(series_index, "-") # 0
    THEN Strip(Partition(series_index, "-")[1])
    ELSE series_index

\* lines 240-246
SeriesIndexText(raw) == RangeStart(Strip(raw))

\* lines 237-239: the series name without its trailing comma
SeriesName(stripped_name) ==
    IF EndsWith(stripped_name, ",")
    THEN Slice(stripped_name, 0, Len(stripped_name) - 1)
    ELSE stripped_name

\* lines 247-252: the float() of the index text decides
TitleSeriesResult(title_text, title, series_name, series_index) ==
    IF series_index # None
    THEN <<Some(Strip(title)), Some(series_name), series_index>>
    ELSE <<Some(Strip(title_text)), None, None>>

\* lines 236-252
TitleSeriesOfInfo(title_text, title, series_partition) ==
    TitleSeriesResult(title_text, title,
                      SeriesName(Strip(series_partition[1])),
                      ParseFloat(SeriesIndexText(series_partition[3])))

\* lines 224-234: <<title, series_info>> once the last group is taken apart
TitleAndInfo(title_text, text_split) ==
    IF Find(text_split[3], "#") <= 0 THEN <<title_text, <<>>>>
    ELSE AbsorbGroups(text_split[1],
                      Slice(text_split[3], 0, Len(text_split[3]) - 1))

\* lines 235-252
TitleSeriesOfFixed(title_text, fixed) ==
    IF fixed[2] = <<>> THEN <<Some(Strip(fixed[1])), None, None>>
    ELSE TitleSeriesOfInfo(title_text, fixed[1], RPartition(fixed[2], "#"))

\* lines 208-252
TitleSeriesOfText(title_text) ==
    IF Find(title_text, "(") = -1 THEN <<Some(title_text), None, None>>
    ELSE TitleSeriesOfFixed(title_text,
             TitleAndInfo(title_text, RPartition(title_text, "(")))

\* title_node is the list the og:title xpath returns.  The result is
\* <<title, series, series_index>>, each None or Some(value).
parse_title_series(title_node) ==
    IF title_node = <<>> THEN <<None, None, None>>
    ELSE TitleSeriesOfText(Strip(title_node[1]))

(* ---------------------------------------------------------------------- *)
(* More text primitives.                                                   *)
(* ---------------------------------------------------------------------- *)

UpperChars == <<"A", "B", "C", "D", "E", "F", "G", "H", "I", "J", "K", "L", "M",
                "N", "O", "P", "Q", "R", "S", "T", "U", "V", "W", "X", "Y", "Z">>
LowerChars == <<"a", "b", "c", "d", "e", "f", "g", "h", "i", "j", "k", "l", "m",
                "n", "o", "p", "q", "r", "s", "t", "u", "v", "w", "x", "y", "z">>

\* The characters outside ASCII that have a lowercase letter in the Unicode
\* database of Python 2.7 (5.2.0), in the order of their codes, and below,
\* at the same places, these lowercase letters.
UnicodeUpper == <<
    "U+00C0", "U+00C1", "U+00C2", "U+00C3", "U+00C4", "U+00C5", "U+00C6",
    "U+00C7", "U+00C8", "U+00C9", "U+00CA", "U+00CB", "U+00CC", "U+00CD",
    "U+00CE", "U+00CF", "U+00D0", "U+00D1", "U+00D2", "U+00D3", "U+00D4",
    "U+00D5", "U+00D6", "U+00D8", "U+00D9", "U+00DA", "U+00DB", "U+00DC",
    "U+00DD", "U+00DE", "U+0100", "U+0102", "U+0104", "U+0106", "U+0108",
    "U+010A", "U+010C", "U+010E", "U+0110", "U+0112", "U+0114", "U+0116",
    "U+0118", "U+011A", "U+011C", "U+011E", "U+0120", "U+0122", "U+0124",
    "U+0126", "U+0128", "U+012A", "U+012C", "U+012E", "U+0130", "U+0132",
    "U+0134", "U+0136", "U+0139", "U+013B", "U+013D", "U+013F", "U+0141",
    "U+0143", "U+0145", "U+0147", "U+014A", "U+014C", "U+014E", "U+0150",
    "U+0152", "U+0154", "U+0156", "U+0158", "U+015A", "U+015C", "U+015E",
    "U+0160", "U+0162", "U+0164", "U+0166", "U+0168", "U+016A", "U+016C",
    "U+016E", "U+0170", "U+0172", "U+0174", "U+0176", "U+0178", "U+0179",
    "U+017B", "U+017D", "U+0181", "U+0182", "U+0184", "U+0186", "U+0187",
    "U+0189", "U+018A", "U+018B", "U+018E", "U+018F", "U+0190", "U+0191",
    "U+0193", "U+0194", "U+0196", "U+0197", "U+0198", "U+019C", "U+019D",
    "U+019F", "U+01A0", "U+01A2", "U+01A4", "U+01A6", "U+01A7", "U+01A9",
    "U+01AC", "U+01AE", "U+01AF", "U+01B1", "U+01B2", "U+01B3", "U+01B5",
    "U+01B7", "U+01B8", "U+01BC", "U+01C4", "U+01C5", "U+01C7", "U+01C8",
    "U+01CA", "U+01CB", "U+01CD", "U+01CF", "U+01D1", "U+01D3", "U+01D5",
    "U+01D7", "U+01D9", "U+01DB", "U+01DE", "U+01E0", "U+01E2", "U+01E4",
    "U+01E6", "U+01E8", "U+01EA", "U+01EC", "U+01EE", "U+01F1", "U+01F2",
    "U+01F4", "U+01F6", "U+01F7", "U+01F8", "U+01FA", "U+01FC", "U+01FE",
    "U+0200", "U+0202", "U+0204", "U+0206", "U+0208", "U+020A", "U+020C",
    "U+020E", "U+0210", "U+0212", "U+0214", "U+0216", "U+0218", "U+021A",
    "U+021C", "U+021E", "U+0220", "U+0222", "U+0224", "U+0226", "U+0228",
    "U+022A", "U+022C", "U+022E", "U+0230", "U+0232", "U+023A", "U+023B",
    "U+023D", "U+023E", "U+0241", "U+0243", "U+0244", "U+0245", "U+0246",
    "U+0248", "U+024A", "U+024C", "U+024E", "U+0370", "U+0372", "U+0376",
    "U+0386", "U+0388", "U+0389", "U+038A", "U+038C", "U+038E", "U+038F",
    "U+0391", "U+0392", "U+0393", "U+0394", "U+0395", "U+0396", "U+0397",
    "U+0398", "U+0399", "U+039A", "U+039B", "U+039C", "U+039D", "U+039E",
    "U+039F", "U+03A0", "U+03A1", "U+03A3", "U+03A4", "U+03A5", "U+03A6",
    "U+03A7", "U+03A8", "U+03A9", "U+03AA", "U+03AB", "U+03CF", "U+03D8",
    "U+03DA", "U+03DC", "U+03DE", "U+03E0", "U+03E2", "U+03E4", "U+03E6",
    "U+03E8", "U+03EA", "U+03EC", "U+03EE", "U+03F4", "U+03F7", "U+03F9",
    "U+03FA", "U+03FD", "U+03FE", "U+03FF", "U+0400", "U+0401", "U+0402",
    "U+0403", "U+0404", "U+0405", "U+0406", "U+0407", "U+0408", "U+0409",
    "U+040A", "U+040B", "U+040C", "U+040D", "U+040E", "U+040F", "U+0410",
    "U+0411", "U+0412", "U+0413", "U+0414", "U+0415", "U+0416", "U+0417",
    "U+0418", "U+0419", "U+041A", "U+041B", "U+041C", "U+041D", "U+041E",
    "U+041F", "U+0420", "U+0421", "U+0422", "U+0423", "U+0424", "U+0425",
    "U+0426", "U+0427", "U+0428", "U+0429", "U+042A", "U+042B", "U+042C",
    "U+042D", "U+042E", "U+042F", "U+0460", "U+0462", "U+0464", "U+0466",
    "U+0468", "U+046A", "U+046C", "U+046E", "U+0470", "U+0472", "U+0474",
    "U+0476", "U+0478", "U+047A", "U+047C", "U+047E", "U+0480", "U+048A",
    "U+048C", "U+048E", "U+0490", "U+0492", "U+0494", "U+0496", "U+0498",
    "U+049A", "U+049C", "U+049E", "U+04A0", "U+04A2", "U+04A4", "U+04A6",
    "U+04A8", "U+04AA", "U+04AC", "U+04AE", "U+04B0", "U+04B2", "U+04B4",
    "U+04B6", "U+04B8", "U+04BA", "U+04BC", "U+04BE", "U+04C0", "U+04C1",
    "U+04C3", "U+04C5", "U+04C7", "U+04C9", "U+04CB", "U+04CD", "U+04D0",
    "U+04D2", "U+04D4", "U+04D6", "U+04D8", "U+04DA", "U+04DC", "U+04DE",
    "U+04E0", "U+04E2", "U+04E4", "U+04E6", "U+04E8", "U+04EA", "U+04EC",
    "U+04EE", "U+04F0", "U+04F2", "U+04F4", "U+04F6", "U+04F8", "U+04FA",
    "U+04FC", "U+04FE", "U+0500", "U+0502", "U+0504", "U+0506", "U+0508",
    "U+050A", "U+050C", "U+050E", "U+0510", "U+0512", "U+0514", "U+0516",
    "U+0518", "U+051A", "U+051C", "U+051E", "U+0520", "U+0522", "U+0524",
    "U+0531", "U+0532", "U+0533", "U+0534", "U+0535", "U+0536", "U+0537",
    "U+0538", "U+0539", "U+053A", "U+053B", "U+053C", "U+053D", "U+053E",
    "U+053F", "U+0540", "U+0541", "U+0542", "U+0543", "U+0544", "U+0545",
    "U+0546", "U+0547", "U+0548", "U+0549", "U+054A", "U+054B", "U+054C",
    "U+054D", "U+054E", "U+054F", "U+0550", "U+0551", "U+0552", "U+0553",
    "U+0554", "U+0555", "U+0556", "U+10A0", "U+10A1", "U+10A2", "U+10A3",
    "U+10A4", "U+10A5", "U+10A6", "U+10A7", "U+10A8", "U+10A9", "U+10AA",
    "U+10AB", "U+10AC", "U+10AD", "U+10AE", "U+10AF", "U+10B0", "U+10B1",
    "U+10B2", "U+10B3", "U+10B4", "U+10B5", "U+10B6", "U+10B7", "U+10B8",
    "U+10B9", "U+10BA", "U+10BB", "U+10BC", "U+10BD", "U+10BE", "U+10BF",
    "U+10C0", "U+10C1", "U+10C2", "U+10C3", "U+10C4", "U+10C5", "U+1E00",
    "U+1E02", "U+1E04", "U+1E06", "U+1E08", "U+1E0A", "U+1E0C", "U+1E0E",
    "U+1E10", "U+1E12", "U+1E14", "U+1E16", "U+1E18", "U+1E1A", "U+1E1C",
    "U+1E1E", "U+1E20", "U+1E22", "U+1E24", "U+1E26", "U+1E28", "U+1E2A",
    "U+1E2C", "U+1E2E", "U+1E30", "U+1E32", "U+1E34", "U+1E36", "U+1E38",
    "U+1E3A", "U+1E3C", "U+1E3E", "U+1E40", "U+1E42", "U+1E44", "U+1E46",
    "U+1E48", "U+1E4A", "U+1E4C", "U+1E4E", "U+1E50", "U+1E52", "U+1E54",
    "U+1E56", "U+1E58", "U+1E5A", "U+1E5C", "U+1E5E", "U+1E60", "U+1E62",
    "U+1E64", "U+1E66", "U+1E68", "U+1E6A", "U+1E6C", "U+1E6E", "U+1E70",
    "U+1E72", "U+1E74", "U+1E76", "U+1E78", "U+1E7A", "U+1E7C", "U+1E7E",
    "U+1E80", "U+1E82", "U+1E84", "U+1E86", "U+1E88", "U+1E8A", "U+1E8C",
    "U+1E8E", "U+1E90", "U+1E92", "U+1E94", "U+1E9E", "U+1EA0", "U+1EA2",
    "U+1EA4", "U+1EA6", "U+1EA8", "U+1EAA", "U+1EAC", "U+1EAE", "U+1EB0",
    "U+1EB2", "U+1EB4", "U+1EB6", "U+1EB8", "U+1EBA", "U+1EBC", "U+1EBE",
    "U+1EC0", "U+1EC2", "U+1EC4", "U+1EC6", "U+1EC8", "U+1ECA", "U+1ECC",
    "U+1ECE", "U+1ED0", "U+1ED2", "U+1ED4", "U+1ED6", "U+1ED8", "U+1EDA",
    "U+1EDC", "U+1EDE", "U+1EE0", "U+1EE2", "U+1EE4", "U+1EE6", "U+1EE8",
    "U+1EEA", "U+1EEC", "U+1EEE", "U+1EF0", "U+1EF2", "U+1EF4", "U+1EF6",
    "U+1EF8", "U+1EFA", "U+1EFC", "U+1EFE", "U+1F08", "U+1F09", "U+1F0A",
    "U+1F0B", "U+1F0C", "U+1F0D", "U+1F0E", "U+1F0F", "U+1F18", "U+1F19",
    "U+1F1A", "U+1F1B", "U+1F1C", "U+1F1D", "U+1F28", "U+1F29", "U+1F2A",
    "U+1F2B", "U+1F2C", "U+1F2D", "U+1F2E", "U+1F2F", "U+1F38", "U+1F39",
    "U+1F3A", "U+1F3B", "U+1F3C", "U+1F3D", "U+1F3E", "U+1F3F", "U+1F48",
    "U+1F49", "U+1F4A", "U+1F4B", "U+1F4C", "U+1F4D", "U+1F59", "U+1F5B",
    "U+1F5D", "U+1F5F", "U+1F68", "U+1F69", "U+1F6A", "U+1F6B", "U+1F6C",
    "U+1F6D", "U+1F6E", "U+1F6F", "U+1F88", "U+1F89", "U+1F8A", "U+1F8B",
    "U+1F8C", "U+1F8D", "U+1F8E", "U+1F8F", "U+1F98", "U+1F99", "U+1F9A",
    "U+1F9B", "U+1F9C", "U+1F9D", "U+1F9E", "U+1F9F", "U+1FA8", "U+1FA9",
    "U+1FAA", "U+1FAB", "U+1FAC", "U+1FAD", "U+1FAE", "U+1FAF", "U+1FB8",
    "U+1FB9", "U+1FBA", "U+1FBB", "U+1FBC", "U+1FC8", "U+1FC9", "U+1FCA",
    "U+1FCB", "U+1FCC", "U+1FD8", "U+1FD9", "U+1FDA", "U+1FDB", "U+1FE8",
    "U+1FE9", "U+1FEA", "U+1FEB", "U+1FEC", "U+1FF8", "U+1FF9", "U+1FFA",
    "U+1FFB", "U+1FFC", "U+2126", "U+212A", "U+212B", "U+2132", "U+2160",
    "U+2161", "U+2162", "U+2163", "U+2164", "U+2165", "U+2166", "U+2167",
    "U+2168", "U+2169", "U+216A", "U+216B", "U+216C", "U+216D", "U+216E",
    "U+216F", "U+2183", "U+24B6", "U+24B7", "U+24B8", "U+24B9", "U+24BA",
    "U+24BB", "U+24BC", "U+24BD", "U+24BE", "U+24BF", "U+24C0", "U+24C1",
    "U+24C2", "U+24C3", "U+24C4", "U+24C5", "U+24C6", "U+24C7", "U+24C8",
    "U+24C9", "U+24CA", "U+24CB", "U+24CC", "U+24CD", "U+24CE", "U+24CF",
    "U+2C00", "U+2C01", "U+2C02", "U+2C03", "U+2C04", "U+2C05", "U+2C06",
    "U+2C07", "U+2C08", "U+2C09", "U+2C0A", "U+2C0B", "U+2C0C", "U+2C0D",
    "U+2C0E", "U+2C0F", "U+2C10", "U+2C11", "U+2C12", "U+2C13", "U+2C14",
    "U+2C15", "U+2C16", "U+2C17", "U+2C18", "U+2C19", "U+2C1A", "U+2C1B",
    "U+2C1C", "U+2C1D", "U+2C1E", "U+2C1F", "U+2C20", "U+2C21", "U+2C22",
    "U+2C23", "U+2C24", "U+2C25", "U+2C26", "U+2C27", "U+2C28", "U+2C29",
    "U+2C2A", "U+2C2B", "U+2C2C", "U+2C2D", "U+2C2E", "U+2C60", "U+2C62",
    "U+2C63", "U+2C64", "U+2C67", "U+2C69", "U+2C6B", "U+2C6D", "U+2C6E",
    "U+2C6F", "U+2C70", "U+2C72", "U+2C75", "U+2C7E", "U+2C7F", "U+2C80",
    "U+2C82", "U+2C84", "U+2C86", "U+2C88", "U+2C8A", "U+2C8C", "U+2C8E",
    "U+2C90", "U+2C92", "U+2C94", "U+2C96", "U+2C98", "U+2C9A", "U+2C9C",
    "U+2C9E", "U+2CA0", "U+2CA2", "U+2CA4", "U+2CA6", "U+2CA8", "U+2CAA",
    "U+2CAC", "U+2CAE", "U+2CB0", "U+2CB2", "U+2CB4", "U+2CB6", "U+2CB8",
    "U+2CBA", "U+2CBC", "U+2CBE", "U+2CC0", "U+2CC2", "U+2CC4", "U+2CC6",
    "U+2CC8", "U+2CCA", "U+2CCC", "U+2CCE", "U+2CD0", "U+2CD2", "U+2CD4",
    "U+2CD6", "U+2CD8", "U+2CDA", "U+2CDC", "U+2CDE", "U+2CE0", "U+2CE2",
    "U+2CEB", "U+2CED", "U+A640", "U+A642", "U+A644", "U+A646", "U+A648",
    "U+A64A", "U+A64C", "U+A64E", "U+A650", "U+A652", "U+A654", "U+A656",
    "U+A658", "U+A65A", "U+A65C", "U+A65E", "U+A662", "U+A664", "U+A666",
    "U+A668", "U+A66A", "U+A66C", "U+A680", "U+A682", "U+A684", "U+A686",
    "U+A688", "U+A68A", "U+A68C", "U+A68E", "U+A690", "U+A692", "U+A694",
    "U+A696", "U+A722", "U+A724", "U+A726", "U+A728", "U+A72A", "U+A72C",
    "U+A72E", "U+A732", "U+A734", "U+A736", "U+A738", "U+A73A", "U+A73C",
    "U+A73E", "U+A740", "U+A742", "U+A744", "U+A746", "U+A748", "U+A74A",
    "U+A74C", "U+A74E", "U+A750", "U+A752", "U+A754", "U+A756", "U+A758",
    "U+A75A", "U+A75C", "U+A75E", "U+A760", "U+A762", "U+A764", "U+A766",
    "U+A768", "U+A76A", "U+A76C", "U+A76E", "U+A779", "U+A77B", "U+A77D",
    "U+A77E", "U+A780", "U+A782", "U+A784", "U+A786", "U+A78B", "U+FF21",
    "U+FF22", "U+FF23", "U+FF24", "U+FF25", "U+FF26", "U+FF27", "U+FF28",
    "U+FF29", "U+FF2A", "U+FF2B", "U+FF2C", "U+FF2D", "U+FF2E", "U+FF2F",
    "U+FF30", "U+FF31", "U+FF32", "U+FF33", "U+FF34", "U+FF35", "U+FF36",
    "U+FF37", "U+FF38", "U+FF39", "U+FF3A", "U+10400", "U+10401", "U+10402",
    "U+10403", "U+10404", "U+10405", "U+10406", "U+10407", "U+10408",
    "U+10409", "U+1040A", "U+1040B", "U+1040C", "U+1040D", "U+1040E",
    "U+1040F", "U+10410", "U+10411", "U+10412", "U+10413", "U+10414",
    "U+10415", "U+10416", "U+10417", "U+10418", "U+10419", "U+1041A",
    "U+1041B", "U+1041C", "U+1041D", "U+1041E", "U+1041F", "U+10420",
    "U+10421", "U+10422", "U+10423", "U+10424", "U+10425", "U+10426",
    "U+10427">>

UnicodeLower == <<
    "U+00E0", "U+00E1", "U+00E2", "U+00E3", "U+00E4", "U+00E5", "U+00E6",
    "U+00E7", "U+00E8", "U+00E9", "U+00EA", "U+00EB", "U+00EC", "U+00ED",
    "U+00EE", "U+00EF", "U+00F0", "U+00F1", "U+00F2", "U+00F3", "U+00F4",
    "U+00F5", "U+00F6", "U+00F8", "U+00F9", "U+00FA", "U+00FB", "U+00FC",
    "U+00FD", "U+00FE", "U+0101", "U+0103", "U+0105", "U+0107", "U+0109",
    "U+010B", "U+010D", "U+010F", "U+0111", "U+0113", "U+0115", "U+0117",
    "U+0119", "U+011B", "U+011D", "U+011F", "U+0121", "U+0123", "U+0125",
    "U+0127", "U+0129", "U+012B", "U+012D", "U+012F", "i", "U+0133", "U+0135",
    "U+0137", "U+013A", "U+013C", "U+013E", "U+0140", "U+0142", "U+0144",
    "U+0146", "U+0148", "U+014B", "U+014D", "U+014F", "U+0151", "U+0153",
    "U+0155", "U+0157", "U+0159", "U+015B", "U+015D", "U+015F", "U+0161",
    "U+0163", "U+0165", "U+0167", "U+0169", "U+016B", "U+016D", "U+016F",
    "U+0171", "U+0173", "U+0175", "U+0177", "U+00FF", "U+017A", "U+017C",
    "U+017E", "U+0253", "U+0183", "U+0185", "U+0254", "U+0188", "U+0256",
    "U+0257", "U+018C", "U+01DD", "U+0259", "U+025B", "U+0192", "U+0260",
    "U+0263", "U+0269", "U+0268", "U+0199", "U+026F", "U+0272", "U+0275",
    "U+01A1", "U+01A3", "U+01A5", "U+0280", "U+01A8", "U+0283", "U+01AD",
    "U+0288", "U+01B0", "U+028A", "U+028B", "U+01B4", "U+01B6", "U+0292",
    "U+01B9", "U+01BD", "U+01C6", "U+01C6", "U+01C9", "U+01C9", "U+01CC",
    "U+01CC", "U+01CE", "U+01D0", "U+01D2", "U+01D4", "U+01D6", "U+01D8",
    "U+01DA", "U+01DC", "U+01DF", "U+01E1", "U+01E3", "U+01E5", "U+01E7",
    "U+01E9", "U+01EB", "U+01ED", "U+01EF", "U+01F3", "U+01F3", "U+01F5",
    "U+0195", "U+01BF", "U+01F9", "U+01FB", "U+01FD", "U+01FF", "U+0201",
    "U+0203", "U+0205", "U+0207", "U+0209", "U+020B", "U+020D", "U+020F",
    "U+0211", "U+0213", "U+0215", "U+0217", "U+0219", "U+021B", "U+021D",
    "U+021F", "U+019E", "U+0223", "U+0225", "U+0227", "U+0229", "U+022B",
    "U+022D", "U+022F", "U+0231", "U+0233", "U+2C65", "U+023C", "U+019A",
    "U+2C66", "U+0242", "U+0180", "U+0289", "U+028C", "U+0247", "U+0249",
    "U+024B", "U+024D", "U+024F", "U+0371", "U+0373", "U+0377", "U+03AC",
    "U+03AD", "U+03AE", "U+03AF", "U+03CC", "U+03CD", "U+03CE", "U+03B1",
    "U+03B2", "U+03B3", "U+03B4", "U+03B5", "U+03B6", "U+03B7", "U+03B8",
    "U+03B9", "U+03BA", "U+03BB", "U+03BC", "U+03BD", "U+03BE", "U+03BF",
    "U+03C0", "U+03C1", "U+03C3", "U+03C4", "U+03C5", "U+03C6", "U+03C7",
    "U+03C8", "U+03C9", "U+03CA", "U+03CB", "U+03D7", "U+03D9", "U+03DB",
    "U+03DD", "U+03DF", "U+03E1", "U+03E3", "U+03E5", "U+03E7", "U+03E9",
    "U+03EB", "U+03ED", "U+03EF", "U+03B8", "U+03F8", "U+03F2", "U+03FB",
    "U+037B", "U+037C", "U+037D", "U+0450", "U+0451", "U+0452", "U+0453",
    "U+0454", "U+0455", "U+0456", "U+0457", "U+0458", "U+0459", "U+045A",
    "U+045B", "U+045C", "U+045D", "U+045E", "U+045F", "U+0430", "U+0431",
    "U+0432", "U+0433", "U+0434", "U+0435", "U+0436", "U+0437", "U+0438",
    "U+0439", "U+043A", "U+043B", "U+043C", "U+043D", "U+043E", "U+043F",
    "U+0440", "U+0441", "U+0442", "U+0443", "U+0444", "U+0445", "U+0446",
    "U+0447", "U+0448", "U+0449", "U+044A", "U+044B", "U+044C", "U+044D",
    "U+044E", "U+044F", "U+0461", "U+0463", "U+0465", "U+0467", "U+0469",
    "U+046B", "U+046D", "U+046F", "U+0471", "U+0473", "U+0475", "U+0477",
    "U+0479", "U+047B", "U+047D", "U+047F", "U+0481", "U+048B", "U+048D",
    "U+048F", "U+0491", "U+0493", "U+0495", "U+0497", "U+0499", "U+049B",
    "U+049D", "U+049F", "U+04A1", "U+04A3", "U+04A5", "U+04A7", "U+04A9",
    "U+04AB", "U+04AD", "U+04AF", "U+04B1", "U+04B3", "U+04B5", "U+04B7",
    "U+04B9", "U+04BB", "U+04BD", "U+04BF", "U+04CF", "U+04C2", "U+04C4",
    "U+04C6", "U+04C8", "U+04CA", "U+04CC", "U+04CE", "U+04D1", "U+04D3",
    "U+04D5", "U+04D7", "U+04D9", "U+04DB", "U+04DD", "U+04DF", "U+04E1",
    "U+04E3", "U+04E5", "U+04E7", "U+04E9", "U+04EB", "U+04ED", "U+04EF",
    "U+04F1", "U+04F3", "U+04F5", "U+04F7", "U+04F9", "U+04FB", "U+04FD",
    "U+04FF", "U+0501", "U+0503", "U+0505", "U+0507", "U+0509", "U+050B",
    "U+050D", "U+050F", "U+0511", "U+0513", "U+0515", "U+0517", "U+0519",
    "U+051B", "U+051D", "U+051F", "U+0521", "U+0523", "U+0525", "U+0561",
    "U+0562", "U+0563", "U+0564", "U+0565", "U+0566", "U+0567", "U+0568",
    "U+0569", "U+056A", "U+056B", "U+056C", "U+056D", "U+056E", "U+056F",
    "U+0570", "U+0571", "U+0572", "U+0573", "U+0574", "U+0575", "U+0576",
    "U+0577", "U+0578", "U+0579", "U+057A", "U+057B", "U+057C", "U+057D",
    "U+057E", "U+057F", "U+0580", "U+0581", "U+0582", "U+0583", "U+0584",
    "U+0585", "U+0586", "U+2D00", "U+2D01", "U+2D02", "U+2D03", "U+2D04",
    "U+2D05", "U+2D06", "U+2D07", "U+2D08", "U+2D09", "U+2D0A", "U+2D0B",
    "U+2D0C", "U+2D0D", "U+2D0E", "U+2D0F", "U+2D10", "U+2D11", "U+2D12",
    "U+2D13", "U+2D14", "U+2D15", "U+2D16", "U+2D17", "U+2D18", "U+2D19",
    "U+2D1A", "U+2D1B", "U+2D1C", "U+2D1D", "U+2D1E", "U+2D1F", "U+2D20",
    "U+2D21", "U+2D22", "U+2D23", "U+2D24", "U+2D25", "U+1E01", "U+1E03",
    "U+1E05", "U+1E07", "U+1E09", "U+1E0B", "U+1E0D", "U+1E0F", "U+1E11",
    "U+1E13", "U+1E15", "U+1E17", "U+1E19", "U+1E1B", "U+1E1D", "U+1E1F",
    "U+1E21", "U+1E23", "U+1E25", "U+1E27", "U+1E29", "U+1E2B", "U+1E2D",
    "U+1E2F", "U+1E31", "U+1E33", "U+1E35", "U+1E37", "U+1E39", "U+1E3B",
    "U+1E3D", "U+1E3F", "U+1E41", "U+1E43", "U+1E45", "U+1E47", "U+1E49",
    "U+1E4B", "U+1E4D", "U+1E4F", "U+1E51", "U+1E53", "U+1E55", "U+1E57",
    "U+1E59", "U+1E5B", "U+1E5D", "U+1E5F", "U+1E61", "U+1E63", "U+1E65",
    "U+1E67", "U+1E69", "U+1E6B", "U+1E6D", "U+1E6F", "U+1E71", "U+1E73",
    "U+1E75", "U+1E77", "U+1E79", "U+1E7B", "U+1E7D", "U+1E7F", "U+1E81",
    "U+1E83", "U+1E85", "U+1E87", "U+1E89", "U+1E8B", "U+1E8D", "U+1E8F",
    "U+1E91", "U+1E93", "U+1E95", "U+00DF", "U+1EA1", "U+1EA3", "U+1EA5",
    "U+1EA7", "U+1EA9", "U+1EAB", "U+1EAD", "U+1EAF", "U+1EB1", "U+1EB3",
    "U+1EB5", "U+1EB7", "U+1EB9", "U+1EBB", "U+1EBD", "U+1EBF", "U+1EC1",
    "U+1EC3", "U+1EC5", "U+1EC7", "U+1EC9", "U+1ECB", "U+1ECD", "U+1ECF",
    "U+1ED1", "U+1ED3", "U+1ED5", "U+1ED7", "U+1ED9", "U+1EDB", "U+1EDD",
    "U+1EDF", "U+1EE1", "U+1EE3", "U+1EE5", "U+1EE7", "U+1EE9", "U+1EEB",
    "U+1EED", "U+1EEF", "U+1EF1", "U+1EF3", "U+1EF5", "U+1EF7", "U+1EF9",
    "U+1EFB", "U+1EFD", "U+1EFF", "U+1F00", "U+1F01", "U+1F02", "U+1F03",
    "U+1F04", "U+1F05", "U+1F06", "U+1F07", "U+1F10", "U+1F11", "U+1F12",
    "U+1F13", "U+1F14", "U+1F15", "U+1F20", "U+1F21", "U+1F22", "U+1F23",
    "U+1F24", "U+1F25", "U+1F26", "U+1F27", "U+1F30", "U+1F31", "U+1F32",
    "U+1F33", "U+1F34", "U+1F35", "U+1F36", "U+1F37", "U+1F40", "U+1F41",
    "U+1F42", "U+1F43", "U+1F44", "U+1F45", "U+1F51", "U+1F53", "U+1F55",
    "U+1F57", "U+1F60", "U+1F61", "U+1F62", "U+1F63", "U+1F64", "U+1F65",
    "U+1F66", "U+1F67", "U+1F80", "U+1F81", "U+1F82", "U+1F83", "U+1F84",
    "U+1F85", "U+1F86", "U+1F87", "U+1F90", "U+1F91", "U+1F92", "U+1F93",
    "U+1F94", "U+1F95", "U+1F96", "U+1F97", "U+1FA0", "U+1FA1", "U+1FA2",
    "U+1FA3", "U+1FA4", "U+1FA5", "U+1FA6", "U+1FA7", "U+1FB0", "U+1FB1",
    "U+1F70", "U+1F71", "U+1FB3", "U+1F72", "U+1F73", "U+1F74", "U+1F75",
    "U+1FC3", "U+1FD0", "U+1FD1", "U+1F76", "U+1F77", "U+1FE0", "U+1FE1",
    "U+1F7A", "U+1F7B", "U+1FE5", "U+1F78", "U+1F79", "U+1F7C", "U+1F7D",
    "U+1FF3", "U+03C9", "k", "U+00E5", "U+214E", "U+2170", "U+2171", "U+2172",
    "U+2173", "U+2174", "U+2175", "U+2176", "U+2177", "U+2178", "U+2179",
    "U+217A", "U+217B", "U+217C", "U+217D", "U+217E", "U+217F", "U+2184",
    "U+24D0", "U+24D1", "U+24D2", "U+24D3", "U+24D4", "U+24D5", "U+24D6",
    "U+24D7", "U+24D8", "U+24D9", "U+24DA", "U+24DB", "U+24DC", "U+24DD",
    "U+24DE", "U+24DF", "U+24E0", "U+24E1", "U+24E2", "U+24E3", "U+24E4",
    "U+24E5", "U+24E6", "U+24E7", "U+24E8", "U+24E9", "U+2C30", "U+2C31",
    "U+2C32", "U+2C33", "U+2C34", "U+2C35", "U+2C36", "U+2C37", "U+2C38",
    "U+2C39", "U+2C3A", "U+2C3B", "U+2C3C", "U+2C3D", "U+2C3E", "U+2C3F",
    "U+2C40", "U+2C41", "U+2C42", "U+2C43", "U+2C44", "U+2C45", "U+2C46",
    "U+2C47", "U+2C48", "U+2C49", "U+2C4A", "U+2C4B", "U+2C4C", "U+2C4D",
    "U+2C4E", "U+2C4F", "U+2C50", "U+2C51", "U+2C52", "U+2C53", "U+2C54",
    "U+2C55", "U+2C56", "U+2C57", "U+2C58", "U+2C59", "U+2C5A", "U+2C5B",
    "U+2C5C", "U+2C5D", "U+2C5E", "U+2C61", "U+026B", "U+1D7D", "U+027D",
    "U+2C68", "U+2C6A", "U+2C6C", "U+0251", "U+0271", "U+0250", "U+0252",
    "U+2C73", "U+2C76", "U+023F", "U+0240", "U+2C81", "U+2C83", "U+2C85",
    "U+2C87", "U+2C89", "U+2C8B", "U+2C8D", "U+2C8F", "U+2C91", "U+2C93",
    "U+2C95", "U+2C97", "U+2C99", "U+2C9B", "U+2C9D", "U+2C9F", "U+2CA1",
    "U+2CA3", "U+2CA5", "U+2CA7", "U+2CA9", "U+2CAB", "U+2CAD", "U+2CAF",
    "U+2CB1", "U+2CB3", "U+2CB5", "U+2CB7", "U+2CB9", "U+2CBB", "U+2CBD",
    "U+2CBF", "U+2CC1", "U+2CC3", "U+2CC5", "U+2CC7", "U+2CC9", "U+2CCB",
    "U+2CCD", "U+2CCF", "U+2CD1", "U+2CD3", "U+2CD5", "U+2CD7", "U+2CD9",
    "U+2CDB", "U+2CDD", "U+2CDF", "U+2CE1", "U+2CE3", "U+2CEC", "U+2CEE",
    "U+A641", "U+A643", "U+A645", "U+A647", "U+A649", "U+A64B", "U+A64D",
    "U+A64F", "U+A651", "U+A653", "U+A655", "U+A657", "U+A659", "U+A65B",
    "U+A65D", "U+A65F", "U+A663", "U+A665", "U+A667", "U+A669", "U+A66B",
    "U+A66D", "U+A681", "U+A683", "U+A685", "U+A687", "U+A689", "U+A68B",
    "U+A68D", "U+A68F", "U+A691", "U+A693", "U+A695", "U+A697", "U+A723",
    "U+A725", "U+A727", "U+A729", "U+A72B", "U+A72D", "U+A72F", "U+A733",
    "U+A735", "U+A737", "U+A739", "U+A73B", "U+A73D", "U+A73F", "U+A741",
    "U+A743", "U+A745", "U+A747", "U+A749", "U+A74B", "U+A74D", "U+A74F",
    "U+A751", "U+A753", "U+A755", "U+A757", "U+A759", "U+A75B", "U+A75D",
    "U+A75F", "U+A761", "U+A763", "U+A765", "U+A767", "U+A769", "U+A76B",
    "U+A76D", "U+A76F", "U+A77A", "U+A77C", "U+1D79", "U+A77F", "U+A781",
    "U+A783", "U+A785", "U+A787", "U+A78C", "U+FF41", "U+FF42", "U+FF43",
    "U+FF44", "U+FF45", "U+FF46", "U+FF47", "U+FF48", "U+FF49", "U+FF4A",
    "U+FF4B", "U+FF4C", "U+FF4D", "U+FF4E", "U+FF4F", "U+FF50", "U+FF51",
    "U+FF52", "U+FF53", "U+FF54", "U+FF55", "U+FF56", "U+FF57", "U+FF58",
    "U+FF59", "U+FF5A", "U+10428", "U+10429", "U+1042A", "U+1042B", "U+1042C",
    "U+1042D", "U+1042E", "U+1042F", "U+10430", "U+10431", "U+10432",
    "U+10433", "U+10434", "U+10435", "U+10436", "U+10437", "U+10438",
    "U+10439", "U+1043A", "U+1043B", "U+1043C", "U+1043D", "U+1043E",
    "U+1043F", "U+10440", "U+10441", "U+10442", "U+10443", "U+10444",
    "U+10445", "U+10446", "U+10447", "U+10448", "U+10449", "U+1044A",
    "U+1044B", "U+1044C", "U+1044D", "U+1044E", "U+1044F">>

UnicodeUpperSet == {UnicodeUpper[i] : i \in 1..Len(UnicodeUpper)}

\* the lower case of an ASCII letter, which is all that re.IGNORECASE folds
\* without re.UNICODE
AsciiLower(c) ==
    IF \E i \in 1..Len(UpperChars) : UpperChars[i] = c
    THEN LowerChars[CHOOSE i \in 1..Len(UpperChars) : UpperChars[i] = c]
    ELSE c

LowerChar(c) ==
    IF AsciiLower(c) # c THEN AsciiLower(c)
    ELSE IF c \in UnicodeUpperSet
    THEN UnicodeLower[CHOOSE i \in 1..Len(UnicodeUpper) : UnicodeUpper[i] = c]
    ELSE c

\* unicode.lower(), which calibre.utils.icu.lower comes to character by
\* character: every character that has a lowercase letter becomes it
lower(s) == [i \in 1..Len(s) |-> LowerChar(s[i])]

\* The characters outside ASCII that have an uppercase letter in the same
\* database, in the order of their codes, and below, at the same places,
\* these uppercase letters.
UnicodeSmall == <<
    "U+00B5", "U+00E0", "U+00E1", "U+00E2", "U+00E3", "U+00E4", "U+00E5",
    "U+00E6", "U+00E7", "U+00E8", "U+00E9", "U+00EA", "U+00EB", "U+00EC",
    "U+00ED", "U+00EE", "U+00EF", "U+00F0", "U+00F1", "U+00F2", "U+00F3",
    "U+00F4", "U+00F5", "U+00F6", "U+00F8", "U+00F9", "U+00FA", "U+00FB",
    "U+00FC", "U+00FD", "U+00FE", "U+00FF", "U+0101", "U+0103", "U+0105",
    "U+0107", "U+0109", "U+010B", "U+010D", "U+010F", "U+0111", "U+0113",
    "U+0115", "U+0117", "U+0119", "U+011B", "U+011D", "U+011F", "U+0121",
    "U+0123", "U+0125", "U+0127", "U+0129", "U+012B", "U+012D", "U+012F",
    "U+0131", "U+0133", "U+0135", "U+0137", "U+013A", "U+013C", "U+013E",
    "U+0140", "U+0142", "U+0144", "U+0146", "U+0148", "U+014B", "U+014D",
    "U+014F", "U+0151", "U+0153", "U+0155", "U+0157", "U+0159", "U+015B",
    "U+015D", "U+015F", "U+0161", "U+0163", "U+0165", "U+0167", "U+0169",
    "U+016B", "U+016D", "U+016F", "U+0171", "U+0173", "U+0175", "U+0177",
    "U+017A", "U+017C", "U+017E", "U+017F", "U+0180", "U+0183", "U+0185",
    "U+0188", "U+018C", "U+0192", "U+0195", "U+0199", "U+019A", "U+019E",
    "U+01A1", "U+01A3", "U+01A5", "U+01A8", "U+01AD", "U+01B0", "U+01B4",
    "U+01B6", "U+01B9", "U+01BD", "U+01BF", "U+01C5", "U+01C6", "U+01C8",
    "U+01C9", "U+01CB", "U+01CC", "U+01CE", "U+01D0", "U+01D2", "U+01D4",
    "U+01D6", "U+01D8", "U+01DA", "U+01DC", "U+01DD", "U+01DF", "U+01E1",
    "U+01E3", "U+01E5", "U+01E7", "U+01E9", "U+01EB", "U+01ED", "U+01EF",
    "U+01F2", "U+01F3", "U+01F5", "U+01F9", "U+01FB", "U+01FD", "U+01FF",
    "U+0201", "U+0203", "U+0205", "U+0207", "U+0209", "U+020B", "U+020D",
    "U+020F", "U+0211", "U+0213", "U+0215", "U+0217", "U+0219", "U+021B",
    "U+021D", "U+021F", "U+0223", "U+0225", "U+0227", "U+0229", "U+022B",
    "U+022D", "U+022F", "U+0231", "U+0233", "U+023C", "U+023F", "U+0240",
    "U+0242", "U+0247", "U+0249", "U+024B", "U+024D", "U+024F", "U+0250",
    "U+0251", "U+0252", "U+0253", "U+0254", "U+0256", "U+0257", "U+0259",
    "U+025B", "U+0260", "U+0263", "U+0268", "U+0269", "U+026B", "U+026F",
    "U+0271", "U+0272", "U+0275", "U+027D", "U+0280", "U+0283", "U+0288",
    "U+0289", "U+028A", "U+028B", "U+028C", "U+0292", "U+0345", "U+0371",
    "U+0373", "U+0377", "U+037B", "U+037C", "U+037D", "U+03AC", "U+03AD",
    "U+03AE", "U+03AF", "U+03B1", "U+03B2", "U+03B3", "U+03B4", "U+03B5",
    "U+03B6", "U+03B7", "U+03B8", "U+03B9", "U+03BA", "U+03BB", "U+03BC",
    "U+03BD", "U+03BE", "U+03BF", "U+03C0", "U+03C1", "U+03C2", "U+03C3",
    "U+03C4", "U+03C5", "U+03C6", "U+03C7", "U+03C8", "U+03C9", "U+03CA",
    "U+03CB", "U+03CC", "U+03CD", "U+03CE", "U+03D0", "U+03D1", "U+03D5",
    "U+03D6", "U+03D7", "U+03D9", "U+03DB", "U+03DD", "U+03DF", "U+03E1",
    "U+03E3", "U+03E5", "U+03E7", "U+03E9", "U+03EB", "U+03ED", "U+03EF",
    "U+03F0", "U+03F1", "U+03F2", "U+03F5", "U+03F8", "U+03FB", "U+0430",
    "U+0431", "U+0432", "U+0433", "U+0434", "U+0435", "U+0436", "U+0437",
    "U+0438", "U+0439", "U+043A", "U+043B", "U+043C", "U+043D", "U+043E",
    "U+043F", "U+0440", "U+0441", "U+0442", "U+0443", "U+0444", "U+0445",
    "U+0446", "U+0447", "U+0448", "U+0449", "U+044A", "U+044B", "U+044C",
    "U+044D", "U+044E", "U+044F", "U+0450", "U+0451", "U+0452", "U+0453",
    "U+0454", "U+0455", "U+0456", "U+0457", "U+0458", "U+0459", "U+045A",
    "U+045B", "U+045C", "U+045D", "U+045E", "U+045F", "U+0461", "U+0463",
    "U+0465", "U+0467", "U+0469", "U+046B", "U+046D", "U+046F", "U+0471",
    "U+0473", "U+0475", "U+0477", "U+0479", "U+047B", "U+047D", "U+047F",
    "U+0481", "U+048B", "U+048D", "U+048F", "U+0491", "U+0493", "U+0495",
    "U+0497", "U+0499", "U+049B", "U+049D", "U+049F", "U+04A1", "U+04A3",
    "U+04A5", "U+04A7", "U+04A9", "U+04AB", "U+04AD", "U+04AF", "U+04B1",
    "U+04B3", "U+04B5", "U+04B7", "U+04B9", "U+04BB", "U+04BD", "U+04BF",
    "U+04C2", "U+04C4", "U+04C6", "U+04C8", "U+04CA", "U+04CC", "U+04CE",
    "U+04CF", "U+04D1", "U+04D3", "U+04D5", "U+04D7", "U+04D9", "U+04DB",
    "U+04DD", "U+04DF", "U+04E1", "U+04E3", "U+04E5", "U+04E7", "U+04E9",
    "U+04EB", "U+04ED", "U+04EF", "U+04F1", "U+04F3", "U+04F5", "U+04F7",
    "U+04F9", "U+04FB", "U+04FD", "U+04FF", "U+0501", "U+0503", "U+0505",
    "U+0507", "U+0509", "U+050B", "U+050D", "U+050F", "U+0511", "U+0513",
    "U+0515", "U+0517", "U+0519", "U+051B", "U+051D", "U+051F", "U+0521",
    "U+0523", "U+0525", "U+0561", "U+0562", "U+0563", "U+0564", "U+0565",
    "U+0566", "U+0567", "U+0568", "U+0569", "U+056A", "U+056B", "U+056C",
    "U+056D", "U+056E", "U+056F", "U+0570", "U+0571", "U+0572", "U+0573",
    "U+0574", "U+0575", "U+0576", "U+0577", "U+0578", "U+0579", "U+057A",
    "U+057B", "U+057C", "U+057D", "U+057E", "U+057F", "U+0580", "U+0581",
    "U+0582", "U+0583", "U+0584", "U+0585", "U+0586", "U+1D79", "U+1D7D",
    "U+1E01", "U+1E03", "U+1E05", "U+1E07", "U+1E09", "U+1E0B", "U+1E0D",
    "U+1E0F", "U+1E11", "U+1E13", "U+1E15", "U+1E17", "U+1E19", "U+1E1B",
    "U+1E1D", "U+1E1F", "U+1E21", "U+1E23", "U+1E25", "U+1E27", "U+1E29",
    "U+1E2B", "U+1E2D", "U+1E2F", "U+1E31", "U+1E33", "U+1E35", "U+1E37",
    "U+1E39", "U+1E3B", "U+1E3D", "U+1E3F", "U+1E41", "U+1E43", "U+1E45",
    "U+1E47", "U+1E49", "U+1E4B", "U+1E4D", "U+1E4F", "U+1E51", "U+1E53",
    "U+1E55", "U+1E57", "U+1E59", "U+1E5B", "U+1E5D", "U+1E5F", "U+1E61",
    "U+1E63", "U+1E65", "U+1E67", "U+1E69", "U+1E6B", "U+1E6D", "U+1E6F",
    "U+1E71", "U+1E73", "U+1E75", "U+1E77", "U+1E79", "U+1E7B", "U+1E7D",
    "U+1E7F", "U+1E81", "U+1E83", "U+1E85", "U+1E87", "U+1E89", "U+1E8B",
    "U+1E8D", "U+1E8F", "U+1E91", "U+1E93", "U+1E95", "U+1E9B", "U+1EA1",
    "U+1EA3", "U+1EA5", "U+1EA7", "U+1EA9", "U+1EAB", "U+1EAD", "U+1EAF",
    "U+1EB1", "U+1EB3", "U+1EB5", "U+1EB7", "U+1EB9", "U+1EBB", "U+1EBD",
    "U+1EBF", "U+1EC1", "U+1EC3", "U+1EC5", "U+1EC7", "U+1EC9", "U+1ECB",
    "U+1ECD", "U+1ECF", "U+1ED1", "U+1ED3", "U+1ED5", "U+1ED7", "U+1ED9",
    "U+1EDB", "U+1EDD", "U+1EDF", "U+1EE1", "U+1EE3", "U+1EE5", "U+1EE7",
    "U+1EE9", "U+1EEB", "U+1EED", "U+1EEF", "U+1EF1", "U+1EF3", "U+1EF5",
    "U+1EF7", "U+1EF9", "U+1EFB", "U+1EFD", "U+1EFF", "U+1F00", "U+1F01",
    "U+1F02", "U+1F03", "U+1F04", "U+1F05", "U+1F06", "U+1F07", "U+1F10",
    "U+1F11", "U+1F12", "U+1F13", "U+1F14", "U+1F15", "U+1F20", "U+1F21",
    "U+1F22", "U+1F23", "U+1F24", "U+1F25", "U+1F26", "U+1F27", "U+1F30",
    "U+1F31", "U+1F32", "U+1F33", "U+1F34", "U+1F35", "U+1F36", "U+1F37",
    "U+1F40", "U+1F41", "U+1F42", "U+1F43", "U+1F44", "U+1F45", "U+1F51",
    "U+1F53", "U+1F55", "U+1F57", "U+1F60", "U+1F61", "U+1F62", "U+1F63",
    "U+1F64", "U+1F65", "U+1F66", "U+1F67", "U+1F70", "U+1F71", "U+1F72",
    "U+1F73", "U+1F74", "U+1F75", "U+1F76", "U+1F77", "U+1F78", "U+1F79",
    "U+1F7A", "U+1F7B", "U+1F7C", "U+1F7D", "U+1F80", "U+1F81", "U+1F82",
    "U+1F83", "U+1F84", "U+1F85", "U+1F86", "U+1F87", "U+1F90", "U+1F91",
    "U+1F92", "U+1F93", "U+1F94", "U+1F95", "U+1F96", "U+1F97", "U+1FA0",
    "U+1FA1", "U+1FA2", "U+1FA3", "U+1FA4", "U+1FA5", "U+1FA6", "U+1FA7",
    "U+1FB0", "U+1FB1", "U+1FB3", "U+1FBE", "U+1FC3", "U+1FD0", "U+1FD1",
    "U+1FE0", "U+1FE1", "U+1FE5", "U+1FF3", "U+214E", "U+2170", "U+2171",
    "U+2172", "U+2173", "U+2174", "U+2175", "U+2176", "U+2177", "U+2178",
    "U+2179", "U+217A", "U+217B", "U+217C", "U+217D", "U+217E", "U+217F",
    "U+2184", "U+24D0", "U+24D1", "U+24D2", "U+24D3", "U+24D4", "U+24D5",
    "U+24D6", "U+24D7", "U+24D8", "U+24D9", "U+24DA", "U+24DB", "U+24DC",
    "U+24DD", "U+24DE", "U+24DF", "U+24E0", "U+24E1", "U+24E2", "U+24E3",
    "U+24E4", "U+24E5", "U+24E6", "U+24E7", "U+24E8", "U+24E9", "U+2C30",
    "U+2C31", "U+2C32", "U+2C33", "U+2C34", "U+2C35", "U+2C36", "U+2C37",
    "U+2C38", "U+2C39", "U+2C3A", "U+2C3B", "U+2C3C", "U+2C3D", "U+2C3E",
    "U+2C3F", "U+2C40", "U+2C41", "U+2C42", "U+2C43", "U+2C44", "U+2C45",
    "U+2C46", "U+2C47", "U+2C48", "U+2C49", "U+2C4A", "U+2C4B", "U+2C4C",
    "U+2C4D", "U+2C4E", "U+2C4F", "U+2C50", "U+2C51", "U+2C52", "U+2C53",
    "U+2C54", "U+2C55", "U+2C56", "U+2C57", "U+2C58", "U+2C59", "U+2C5A",
    "U+2C5B", "U+2C5C", "U+2C5D", "U+2C5E", "U+2C61", "U+2C65", "U+2C66",
    "U+2C68", "U+2C6A", "U+2C6C", "U+2C73", "U+2C76", "U+2C81", "U+2C83",
    "U+2C85", "U+2C87", "U+2C89", "U+2C8B", "U+2C8D", "U+2C8F", "U+2C91",
    "U+2C93", "U+2C95", "U+2C97", "U+2C99", "U+2C9B", "U+2C9D", "U+2C9F",
    "U+2CA1", "U+2CA3", "U+2CA5", "U+2CA7", "U+2CA9", "U+2CAB", "U+2CAD",
    "U+2CAF", "U+2CB1", "U+2CB3", "U+2CB5", "U+2CB7", "U+2CB9", "U+2CBB",
    "U+2CBD", "U+2CBF", "U+2CC1", "U+2CC3", "U+2CC5", "U+2CC7", "U+2CC9",
    "U+2CCB", "U+2CCD", "U+2CCF", "U+2CD1", "U+2CD3", "U+2CD5", "U+2CD7",
    "U+2CD9", "U+2CDB", "U+2CDD", "U+2CDF", "U+2CE1", "U+2CE3", "U+2CEC",
    "U+2CEE", "U+2D00", "U+2D01", "U+2D02", "U+2D03", "U+2D04", "U+2D05",
    "U+2D06", "U+2D07", "U+2D08", "U+2D09", "U+2D0A", "U+2D0B", "U+2D0C",
    "U+2D0D", "U+2D0E", "U+2D0F", "U+2D10", "U+2D11", "U+2D12", "U+2D13",
    "U+2D14", "U+2D15", "U+2D16", "U+2D17", "U+2D18", "U+2D19", "U+2D1A",
    "U+2D1B", "U+2D1C", "U+2D1D", "U+2D1E", "U+2D1F", "U+2D20", "U+2D21",
    "U+2D22", "U+2D23", "U+2D24", "U+2D25", "U+A641", "U+A643", "U+A645",
    "U+A647", "U+A649", "U+A64B", "U+A64D", "U+A64F", "U+A651", "U+A653",
    "U+A655", "U+A657", "U+A659", "U+A65B", "U+A65D", "U+A65F", "U+A663",
    "U+A665", "U+A667", "U+A669", "U+A66B", "U+A66D", "U+A681", "U+A683",
    "U+A685", "U+A687", "U+A689", "U+A68B", "U+A68D", "U+A68F", "U+A691",
    "U+A693", "U+A695", "U+A697", "U+A723", "U+A725", "U+A727", "U+A729",
    "U+A72B", "U+A72D", "U+A72F", "U+A733", "U+A735", "U+A737", "U+A739",
    "U+A73B", "U+A73D", "U+A73F", "U+A741", "U+A743", "U+A745", "U+A747",
    "U+A749", "U+A74B", "U+A74D", "U+A74F", "U+A751", "U+A753", "U+A755",
    "U+A757", "U+A759", "U+A75B", "U+A75D", "U+A75F", "U+A761", "U+A763",
    "U+A765", "U+A767", "U+A769", "U+A76B", "U+A76D", "U+A76F", "U+A77A",
    "U+A77C", "U+A77F", "U+A781", "U+A783", "U+A785", "U+A787", "U+A78C",
    "U+FF41", "U+FF42", "U+FF43", "U+FF44", "U+FF45", "U+FF46", "U+FF47",
    "U+FF48", "U+FF49", "U+FF4A", "U+FF4B", "U+FF4C", "U+FF4D", "U+FF4E",
    "U+FF4F", "U+FF50", "U+FF51", "U+FF52", "U+FF53", "U+FF54", "U+FF55",
    "U+FF56", "U+FF57", "U+FF58", "U+FF59", "U+FF5A", "U+10428", "U+10429",
    "U+1042A", "U+1042B", "U+1042C", "U+1042D", "U+1042E", "U+1042F",
    "U+10430", "U+10431", "U+10432", "U+10433", "U+10434", "U+10435",
    "U+10436", "U+10437", "U+10438", "U+10439", "U+1043A", "U+1043B",
    "U+1043C", "U+1043D", "U+1043E", "U+1043F", "U+10440", "U+10441",
    "U+10442", "U+10443", "U+10444", "U+10445", "U+10446", "U+10447",
    "U+10448", "U+10449", "U+1044A", "U+1044B", "U+1044C", "U+1044D",
    "U+1044E", "U+1044F">>

UnicodeCapital == <<
    "U+039C", "U+00C0", "U+00C1", "U+00C2", "U+00C3", "U+00C4", "U+00C5",
    "U+00C6", "U+00C7", "U+00C8", "U+00C9", "U+00CA", "U+00CB", "U+00CC",
    "U+00CD", "U+00CE", "U+00CF", "U+00D0", "U+00D1", "U+00D2", "U+00D3",
    "U+00D4", "U+00D5", "U+00D6", "U+00D8", "U+00D9", "U+00DA", "U+00DB",
    "U+00DC", "U+00DD", "U+00DE", "U+0178", "U+0100", "U+0102", "U+0104",
    "U+0106", "U+0108", "U+010A", "U+010C", "U+010E", "U+0110", "U+0112",
    "U+0114", "U+0116", "U+0118", "U+011A", "U+011C", "U+011E", "U+0120",
    "U+0122", "U+0124", "U+0126", "U+0128", "U+012A", "U+012C", "U+012E", "I",
    "U+0132", "U+0134", "U+0136", "U+0139", "U+013B", "U+013D", "U+013F",
    "U+0141", "U+0143", "U+0145", "U+0147", "U+014A", "U+014C", "U+014E",
    "U+0150", "U+0152", "U+0154", "U+0156", "U+0158", "U+015A", "U+015C",
    "U+015E", "U+0160", "U+0162", "U+0164", "U+0166", "U+0168", "U+016A",
    "U+016C", "U+016E", "U+0170", "U+0172", "U+0174", "U+0176", "U+0179",
    "U+017B", "U+017D", "S", "U+0243", "U+0182", "U+0184", "U+0187", "U+018B",
    "U+0191", "U+01F6", "U+0198", "U+023D", "U+0220", "U+01A0", "U+01A2",
    "U+01A4", "U+01A7", "U+01AC", "U+01AF", "U+01B3", "U+01B5", "U+01B8",
    "U+01BC", "U+01F7", "U+01C4", "U+01C4", "U+01C7", "U+01C7", "U+01CA",
    "U+01CA", "U+01CD", "U+01CF", "U+01D1", "U+01D3", "U+01D5", "U+01D7",
    "U+01D9", "U+01DB", "U+018E", "U+01DE", "U+01E0", "U+01E2", "U+01E4",
    "U+01E6", "U+01E8", "U+01EA", "U+01EC", "U+01EE", "U+01F1", "U+01F1",
    "U+01F4", "U+01F8", "U+01FA", "U+01FC", "U+01FE", "U+0200", "U+0202",
    "U+0204", "U+0206", "U+0208", "U+020A", "U+020C", "U+020E", "U+0210",
    "U+0212", "U+0214", "U+0216", "U+0218", "U+021A", "U+021C", "U+021E",
    "U+0222", "U+0224", "U+0226", "U+0228", "U+022A", "U+022C", "U+022E",
    "U+0230", "U+0232", "U+023B", "U+2C7E", "U+2C7F", "U+0241", "U+0246",
    "U+0248", "U+024A", "U+024C", "U+024E", "U+2C6F", "U+2C6D", "U+2C70",
    "U+0181", "U+0186", "U+0189", "U+018A", "U+018F", "U+0190", "U+0193",
    "U+0194", "U+0197", "U+0196", "U+2C62", "U+019C", "U+2C6E", "U+019D",
    "U+019F", "U+2C64", "U+01A6", "U+01A9", "U+01AE", "U+0244", "U+01B1",
    "U+01B2", "U+0245", "U+01B7", "U+0399", "U+0370", "U+0372", "U+0376",
    "U+03FD", "U+03FE", "U+03FF", "U+0386", "U+0388", "U+0389", "U+038A",
    "U+0391", "U+0392", "U+0393", "U+0394", "U+0395", "U+0396", "U+0397",
    "U+0398", "U+0399", "U+039A", "U+039B", "U+039C", "U+039D", "U+039E",
    "U+039F", "U+03A0", "U+03A1", "U+03A3", "U+03A3", "U+03A4", "U+03A5",
    "U+03A6", "U+03A7", "U+03A8", "U+03A9", "U+03AA", "U+03AB", "U+038C",
    "U+038E", "U+038F", "U+0392", "U+0398", "U+03A6", "U+03A0", "U+03CF",
    "U+03D8", "U+03DA", "U+03DC", "U+03DE", "U+03E0", "U+03E2", "U+03E4",
    "U+03E6", "U+03E8", "U+03EA", "U+03EC", "U+03EE", "U+039A", "U+03A1",
    "U+03F9", "U+0395", "U+03F7", "U+03FA", "U+0410", "U+0411", "U+0412",
    "U+0413", "U+0414", "U+0415", "U+0416", "U+0417", "U+0418", "U+0419",
    "U+041A", "U+041B", "U+041C", "U+041D", "U+041E", "U+041F", "U+0420",
    "U+0421", "U+0422", "U+0423", "U+0424", "U+0425", "U+0426", "U+0427",
    "U+0428", "U+0429", "U+042A", "U+042B", "U+042C", "U+042D", "U+042E",
    "U+042F", "U+0400", "U+0401", "U+0402", "U+0403", "U+0404", "U+0405",
    "U+0406", "U+0407", "U+0408", "U+0409", "U+040A", "U+040B", "U+040C",
    "U+040D", "U+040E", "U+040F", "U+0460", "U+0462", "U+0464", "U+0466",
    "U+0468", "U+046A", "U+046C", "U+046E", "U+0470", "U+0472", "U+0474",
    "U+0476", "U+0478", "U+047A", "U+047C", "U+047E", "U+0480", "U+048A",
    "U+048C", "U+048E", "U+0490", "U+0492", "U+0494", "U+0496", "U+0498",
    "U+049A", "U+049C", "U+049E", "U+04A0", "U+04A2", "U+04A4", "U+04A6",
    "U+04A8", "U+04AA", "U+04AC", "U+04AE", "U+04B0", "U+04B2", "U+04B4",
    "U+04B6", "U+04B8", "U+04BA", "U+04BC", "U+04BE", "U+04C1", "U+04C3",
    "U+04C5", "U+04C7", "U+04C9", "U+04CB", "U+04CD", "U+04C0", "U+04D0",
    "U+04D2", "U+04D4", "U+04D6", "U+04D8", "U+04DA", "U+04DC", "U+04DE",
    "U+04E0", "U+04E2", "U+04E4", "U+04E6", "U+04E8", "U+04EA", "U+04EC",
    "U+04EE", "U+04F0", "U+04F2", "U+04F4", "U+04F6", "U+04F8", "U+04FA",
    "U+04FC", "U+04FE", "U+0500", "U+0502", "U+0504", "U+0506", "U+0508",
    "U+050A", "U+050C", "U+050E", "U+0510", "U+0512", "U+0514", "U+0516",
    "U+0518", "U+051A", "U+051C", "U+051E", "U+0520", "U+0522", "U+0524",
    "U+0531", "U+0532", "U+0533", "U+0534", "U+0535", "U+0536", "U+0537",
    "U+0538", "U+0539", "U+053A", "U+053B", "U+053C", "U+053D", "U+053E",
    "U+053F", "U+0540", "U+0541", "U+0542", "U+0543", "U+0544", "U+0545",
    "U+0546", "U+0547", "U+0548", "U+0549", "U+054A", "U+054B", "U+054C",
    "U+054D", "U+054E", "U+054F", "U+0550", "U+0551", "U+0552", "U+0553",
    "U+0554", "U+0555", "U+0556", "U+A77D", "U+2C63", "U+1E00", "U+1E02",
    "U+1E04", "U+1E06", "U+1E08", "U+1E0A", "U+1E0C", "U+1E0E", "U+1E10",
    "U+1E12", "U+1E14", "U+1E16", "U+1E18", "U+1E1A", "U+1E1C", "U+1E1E",
    "U+1E20", "U+1E22", "U+1E24", "U+1E26", "U+1E28", "U+1E2A", "U+1E2C",
    "U+1E2E", "U+1E30", "U+1E32", "U+1E34", "U+1E36", "U+1E38", "U+1E3A",
    "U+1E3C", "U+1E3E", "U+1E40", "U+1E42", "U+1E44", "U+1E46", "U+1E48",
    "U+1E4A", "U+1E4C", "U+1E4E", "U+1E50", "U+1E52", "U+1E54", "U+1E56",
    "U+1E58", "U+1E5A", "U+1E5C", "U+1E5E", "U+1E60", "U+1E62", "U+1E64",
    "U+1E66", "U+1E68", "U+1E6A", "U+1E6C", "U+1E6E", "U+1E70", "U+1E72",
    "U+1E74", "U+1E76", "U+1E78", "U+1E7A", "U+1E7C", "U+1E7E", "U+1E80",
    "U+1E82", "U+1E84", "U+1E86", "U+1E88", "U+1E8A", "U+1E8C", "U+1E8E",
    "U+1E90", "U+1E92", "U+1E94", "U+1E60", "U+1EA0", "U+1EA2", "U+1EA4",
    "U+1EA6", "U+1EA8", "U+1EAA", "U+1EAC", "U+1EAE", "U+1EB0", "U+1EB2",
    "U+1EB4", "U+1EB6", "U+1EB8", "U+1EBA", "U+1EBC", "U+1EBE", "U+1EC0",
    "U+1EC2", "U+1EC4", "U+1EC6", "U+1EC8", "U+1ECA", "U+1ECC", "U+1ECE",
    "U+1ED0", "U+1ED2", "U+1ED4", "U+1ED6", "U+1ED8", "U+1EDA", "U+1EDC",
    "U+1EDE", "U+1EE0", "U+1EE2", "U+1EE4", "U+1EE6", "U+1EE8", "U+1EEA",
    "U+1EEC", "U+1EEE", "U+1EF0", "U+1EF2", "U+1EF4", "U+1EF6", "U+1EF8",
    "U+1EFA", "U+1EFC", "U+1EFE", "U+1F08", "U+1F09", "U+1F0A", "U+1F0B",
    "U+1F0C", "U+1F0D", "U+1F0E", "U+1F0F", "U+1F18", "U+1F19", "U+1F1A",
    "U+1F1B", "U+1F1C", "U+1F1D", "U+1F28", "U+1F29", "U+1F2A", "U+1F2B",
    "U+1F2C", "U+1F2D", "U+1F2E", "U+1F2F", "U+1F38", "U+1F39", "U+1F3A",
    "U+1F3B", "U+1F3C", "U+1F3D", "U+1F3E", "U+1F3F", "U+1F48", "U+1F49",
    "U+1F4A", "U+1F4B", "U+1F4C", "U+1F4D", "U+1F59", "U+1F5B", "U+1F5D",
    "U+1F5F", "U+1F68", "U+1F69", "U+1F6A", "U+1F6B", "U+1F6C", "U+1F6D",
    "U+1F6E", "U+1F6F", "U+1FBA", "U+1FBB", "U+1FC8", "U+1FC9", "U+1FCA",
    "U+1FCB", "U+1FDA", "U+1FDB", "U+1FF8", "U+1FF9", "U+1FEA", "U+1FEB",
    "U+1FFA", "U+1FFB", "U+1F88", "U+1F89", "U+1F8A", "U+1F8B", "U+1F8C",
    "U+1F8D", "U+1F8E", "U+1F8F", "U+1F98", "U+1F99", "U+1F9A", "U+1F9B",
    "U+1F9C", "U+1F9D", "U+1F9E", "U+1F9F", "U+1FA8", "U+1FA9", "U+1FAA",
    "U+1FAB", "U+1FAC", "U+1FAD", "U+1FAE", "U+1FAF", "U+1FB8", "U+1FB9",
    "U+1FBC", "U+0399", "U+1FCC", "U+1FD8", "U+1FD9", "U+1FE8", "U+1FE9",
    "U+1FEC", "U+1FFC", "U+2132", "U+2160", "U+2161", "U+2162", "U+2163",
    "U+2164", "U+2165", "U+2166", "U+2167", "U+2168", "U+2169", "U+216A",
    "U+216B", "U+216C", "U+216D", "U+216E", "U+216F", "U+2183", "U+24B6",
    "U+24B7", "U+24B8", "U+24B9", "U+24BA", "U+24BB", "U+24BC", "U+24BD",
    "U+24BE", "U+24BF", "U+24C0", "U+24C1", "U+24C2", "U+24C3", "U+24C4",
    "U+24C5", "U+24C6", "U+24C7", "U+24C8", "U+24C9", "U+24CA", "U+24CB",
    "U+24CC", "U+24CD", "U+24CE", "U+24CF", "U+2C00", "U+2C01", "U+2C02",
    "U+2C03", "U+2C04", "U+2C05", "U+2C06", "U+2C07", "U+2C08", "U+2C09",
    "U+2C0A", "U+2C0B", "U+2C0C", "U+2C0D", "U+2C0E", "U+2C0F", "U+2C10",
    "U+2C11", "U+2C12", "U+2C13", "U+2C14", "U+2C15", "U+2C16", "U+2C17",
    "U+2C18", "U+2C19", "U+2C1A", "U+2C1B", "U+2C1C", "U+2C1D", "U+2C1E",
    "U+2C1F", "U+2C20", "U+2C21", "U+2C22", "U+2C23", "U+2C24", "U+2C25",
    "U+2C26", "U+2C27", "U+2C28", "U+2C29", "U+2C2A", "U+2C2B", "U+2C2C",
    "U+2C2D", "U+2C2E", "U+2C60", "U+023A", "U+023E", "U+2C67", "U+2C69",
    "U+2C6B", "U+2C72", "U+2C75", "U+2C80", "U+2C82", "U+2C84", "U+2C86",
    "U+2C88", "U+2C8A", "U+2C8C", "U+2C8E", "U+2C90", "U+2C92", "U+2C94",
    "U+2C96", "U+2C98", "U+2C9A", "U+2C9C", "U+2C9E", "U+2CA0", "U+2CA2",
    "U+2CA4", "U+2CA6", "U+2CA8", "U+2CAA", "U+2CAC", "U+2CAE", "U+2CB0",
    "U+2CB2", "U+2CB4", "U+2CB6", "U+2CB8", "U+2CBA", "U+2CBC", "U+2CBE",
    "U+2CC0", "U+2CC2", "U+2CC4", "U+2CC6", "U+2CC8", "U+2CCA", "U+2CCC",
    "U+2CCE", "U+2CD0", "U+2CD2", "U+2CD4", "U+2CD6", "U+2CD8", "U+2CDA",
    "U+2CDC", "U+2CDE", "U+2CE0", "U+2CE2", "U+2CEB", "U+2CED", "U+10A0",
    "U+10A1", "U+10A2", "U+10A3", "U+10A4", "U+10A5", "U+10A6", "U+10A7",
    "U+10A8", "U+10A9", "U+10AA", "U+10AB", "U+10AC", "U+10AD", "U+10AE",
    "U+10AF", "U+10B0", "U+10B1", "U+10B2", "U+10B3", "U+10B4", "U+10B5",
    "U+10B6", "U+10B7", "U+10B8", "U+10B9", "U+10BA", "U+10BB", "U+10BC",
    "U+10BD", "U+10BE", "U+10BF", "U+10C0", "U+10C1", "U+10C2", "U+10C3",
    "U+10C4", "U+10C5", "U+A640", "U+A642", "U+A644", "U+A646", "U+A648",
    "U+A64A", "U+A64C", "U+A64E", "U+A650", "U+A652", "U+A654", "U+A656",
    "U+A658", "U+A65A", "U+A65C", "U+A65E", "U+A662", "U+A664", "U+A666",
    "U+A668", "U+A66A", "U+A66C", "U+A680", "U+A682", "U+A684", "U+A686",
    "U+A688", "U+A68A", "U+A68C", "U+A68E", "U+A690", "U+A692", "U+A694",
    "U+A696", "U+A722", "U+A724", "U+A726", "U+A728", "U+A72A", "U+A72C",
    "U+A72E", "U+A732", "U+A734", "U+A736", "U+A738", "U+A73A", "U+A73C",
    "U+A73E", "U+A740", "U+A742", "U+A744", "U+A746", "U+A748", "U+A74A",
    "U+A74C", "U+A74E", "U+A750", "U+A752", "U+A754", "U+A756", "U+A758",
    "U+A75A", "U+A75C", "U+A75E", "U+A760", "U+A762", "U+A764", "U+A766",
    "U+A768", "U+A76A", "U+A76C", "U+A76E", "U+A779", "U+A77B", "U+A77E",
    "U+A780", "U+A782", "U+A784", "U+A786", "U+A78B", "U+FF21", "U+FF22",
    "U+FF23", "U+FF24", "U+FF25", "U+FF26", "U+FF27", "U+FF28", "U+FF29",
    "U+FF2A", "U+FF2B", "U+FF2C", "U+FF2D", "U+FF2E", "U+FF2F", "U+FF30",
    "U+FF31", "U+FF32", "U+FF33", "U+FF34", "U+FF35", "U+FF36", "U+FF37",
    "U+FF38", "U+FF39", "U+FF3A", "U+10400", "U+10401", "U+10402", "U+10403",
    "U+10404", "U+10405", "U+10406", "U+10407", "U+10408", "U+10409",
    "U+1040A", "U+1040B", "U+1040C", "U+1040D", "U+1040E", "U+1040F",
    "U+10410", "U+10411", "U+10412", "U+10413", "U+10414", "U+10415",
    "U+10416", "U+10417", "U+10418", "U+10419", "U+1041A", "U+1041B",
    "U+1041C", "U+1041D", "U+1041E", "U+1041F", "U+10420", "U+10421",
    "U+10422", "U+10423", "U+10424", "U+10425", "U+10426", "U+10427">>

UnicodeSmallSet == {UnicodeSmall[i] : i \in 1..Len(UnicodeSmall)}

UpperChar(c) ==
    IF \E i \in 1..Len(LowerChars) : LowerChars[i] = c
    THEN UpperChars[CHOOSE i \in 1..Len(LowerChars) : LowerChars[i] = c]
    ELSE IF c \in UnicodeSmallSet
    THEN UnicodeCapital[CHOOSE i \in 1..Len(UnicodeSmall) : UnicodeSmall[i] = c]
    ELSE c

\* calibre.utils.icu.capitalize: the text in lower case with the upper case
\* of its first character in front
capitalize(s) ==
    IF s = <<>> THEN s ELSE <<UpperChar(LowerChar(s[1]))>> \o Tail(lower(s))

\* needle in hay
Contains(hay, needle) ==
    \E i \in 0..(Len(hay) - Len(needle)) :
        SubSeq(hay, i + 1, i + Len(needle)) = needle

\* str.startswith / re.match of a literal
StartsWith(s, prefix) ==
    Len(s) >= Len(prefix) /\ SubSeq(s, 1, Len(prefix)) = prefix

\* str.split(c): always at least one part
RECURSIVE Split(_, _)

SplitFrom(s, c, p) ==
    IF p = -1 THEN <<s>>
    ELSE <<Slice(s, 0, p)>> \o Split(Slice(s, p + 1, Len(s)), c)

Split(s, c) == SplitFrom(s, c, Find(s, c))

\* str.split(): the maximal runs of non-blank characters
RECURSIVE SplitWords(_)

WordsFrom(t, p) ==
    IF t = <<>> THEN <<>>
    ELSE IF p = -1 THEN <<t>>
    ELSE <<Slice(t, 0, p)>> \o SplitWords(Slice(t, p + 1, Len(t)))

\* t from its first blank on, t being stripped
WordsOf(t) ==
    WordsFrom(t, IF \E i \in 1..Len(t) : IsSpace(t[i])
                 THEN (CHOOSE i \in 1..Len(t) :
                           IsSpace(t[i]) /\ \A j \in 1..(i-1) : ~IsSpace(t[j])) - 1
                 ELSE -1)

SplitWords(s) == WordsOf(Strip(s))

\* sep.join(parts)
RECURSIVE Join(_, _)
Join(parts, sep) ==
    IF parts = <<>> THEN <<>>
    ELSE IF Len(parts) = 1 THEN parts[1]
    ELSE parts[1] \o sep \o Join(Tail(parts), sep)

\* re.sub of a literal pattern by the empty string
RECURSIVE RemoveAll(_, _)
RemoveAll(s, pat) ==
    IF Len(s) < Len(pat) \/ pat = <<>> THEN s
    ELSE IF StartsWith(s, pat) THEN RemoveAll(Slice(s, Len(pat), Len(s)), pat)
    ELSE <<s[1]>> \o RemoveAll(Tail(s), pat)

\* the characters of s that are in keep
RECURSIVE Keep(_, _)
Keep(s, keep) ==
    IF s = <<>> THEN <<>>
    ELSE (IF s[1] \in keep THEN <<s[1]>> ELSE <<>>) \o Keep(Tail(s), keep)

\* s with every character of chars replaced by a blank
Blanked(s, chars) == [i \in 1..Len(s) |-> IF s[i] \in chars THEN " " ELSE s[i]]

MinOf(S) == CHOOSE h \in S : \A k \in S : h <= k

\* the value of an optional text or list, empty for None
OrEmpty(o) == IF o = None THEN <<>> ELSE o[1]

\* Python truth of an optional text: neither None nor ''
Truthy(o) == o # None /\ o[1] # <<>>

(* ---------------------------------------------------------------------- *)
(* Host helpers the plugin calls (calibre): modelled on the texts of this  *)
(* model, which hold letters, digits, blanks and the characters named in   *)
(* the sets below.                                                         *)
(* ---------------------------------------------------------------------- *)

RECURSIVE Isbn13Sum(_, _)
Isbn13Sum(s, i) ==
    IF i > Len(s) THEN 0
    ELSE DigitVal(s[i]) * (IF i % 2 = 1 THEN 1 ELSE 3) + Isbn13Sum(s, i + 1)

\* the sum of check_isbn10: the i-th of the first nine digits counts i times
RECURSIVE Isbn10Sum(_, _)
Isbn10Sum(s, i) ==
    IF i > 9 THEN 0 ELSE i * DigitVal(s[i]) + Isbn10Sum(s, i + 1)

\* a text of 10 to 13 times the same digit is rejected; the weighted
\* checksum decides for 10 and for 13 characters, any other length fails
ValidIsbn(t) ==
    IF Len(t) \in 10..13 /\ IsDigitRun(t) /\ \A i \in 1..Len(t) : t[i] = t[1]
    THEN None
    ELSE IF Len(t) = 13 /\ IsDigitRun(t) /\ Isbn13Sum(t, 1) % 10 = 0 THEN Some(t)
    ELSE IF Len(t) = 10 /\ IsDigitRun(SubSeq(t, 1, 9))
               /\ \/ Isbn10Sum(t, 1) % 11 = 10 /\ t[10] = "X"
                  \/ t[10] \in Digits /\ Isbn10Sum(t, 1) % 11 = DigitVal(t[10])
         THEN Some(t)
    ELSE None

\* re.sub('[^0-9X]', '', isbn.upper()): the ASCII digits and X stay, and x
\* is the one other character whose upper case is among them
IsbnKept(isbn) ==
    Keep([i \in 1..Len(isbn) |-> IF isbn[i] = "x" THEN "X" ELSE isbn[i]],
         Digits \cup {"X"})

\* calibre.ebooks.metadata.check_isbn: everything but digits and X is
\* dropped first
check_isbn(isbn) ==
    IF ~Truthy(isbn) THEN None
    ELSE ValidIsbn(IsbnKept(isbn[1]))

Openers == {"(", "[", "{"}
Closers == {")", "]", "}"}

\* the literal word w is at the 1-based position i of t, in either case
FoldedAt(t, i, w) ==
    i + Len(w) - 1 <= Len(t) /\ \A k \in 1..Len(w) : AsciiLower(t[i + k - 1]) = w[k]

\* the position of the first character of t from i on that is in chars, 0
\* when there is none
FirstIn(t, i, chars) ==
    IF \E j \in i..Len(t) : t[j] \in chars
    THEN CHOOSE j \in i..Len(t) : t[j] \in chars /\ \A k \in i..(j-1) : t[k] \notin chars
    ELSE 0

\* the position of the last character of the run of chars that starts at i,
\* i - 1 when t[i] is not one
RunEnd(t, i, chars) ==
    IF \E j \in i..Len(t) : t[j] \notin chars
    THEN (CHOOSE j \in i..Len(t) :
              t[j] \notin chars /\ \A k \in i..(j-1) : t[k] \in chars) - 1
    ELSE Len(t)

\* the words the first title pattern removes with their brackets
BracketedWords ==
    {<<"o", "m", "n", "i", "b", "u", "s">>,
     <<"a", "n", "t", "h", "o", "l", "o", "g", "y">>,
     <<"h", "a", "r", "d", "c", "o", "v", "e", "r">>,
     <<"a", "u", "d", "i", "o", "b", "o", "o", "k">>,
     <<"p", "a", "p", "e", "r", "b", "a", "c", "k">>,
     <<"t", "u", "r", "t", "l", "e", "b", "a", "c", "k">>,
     <<"e", "d", "i", "t", "i", "o", "n">>,
     <<"e", "d", ".">>}

\* The positions where a match of the first title pattern that starts with
\* the bracket at i can end: the bracket, four digits or a word of
\* BracketedWords or `audio\scd` or `mass\s*market`, and a closing bracket.
BracketedEnds(t, i) ==
    {i + Len(w) + 1 : w \in {x \in BracketedWords :
        FoldedAt(t, i + 1, x) /\ i + Len(x) + 1 <= Len(t)
            /\ t[i + Len(x) + 1] \in Closers}}
    \cup {e \in {i + 5} : e <= Len(t) /\ t[e] \in Closers
                           /\ \A k \in (i + 1)..(i + 4) : t[k] \in Digits}
    \cup {e \in {i + 9} : e <= Len(t) /\ t[e] \in Closers
                           /\ FoldedAt(t, i + 1, <<"a", "u", "d", "i", "o">>)
                           /\ t[i + 6] \in AsciiWhitespace
                           /\ FoldedAt(t, i + 7, <<"c", "d">>)}
    \cup {e \in {RunEnd(t, i + 5, AsciiWhitespace) + 7} :
              e <= Len(t) /\ t[e] \in Closers
                  /\ FoldedAt(t, i + 1, <<"m", "a", "s", "s">>)
                  /\ FoldedAt(t, e - 6, <<"m", "a", "r", "k", "e", "t">>)}

\* The closing brackets that can end a match of the second title pattern
\* that starts with the bracket at i: `ed` and one more character lie
\* between the two, and no newline does.
EditionEnds(t, i) ==
    {q \in (i + 4)..Len(t) :
        /\ t[q] \in Closers
        /\ \A k \in (i + 1)..(q - 1) : t[k] # "\n"
        /\ \E p \in (i + 1)..(q - 3) : FoldedAt(t, p, <<"e", "d">>)}

\* The position of the last character of the match of a pattern of
\* Source.get_title_tokens that starts at the 1-based position i of t, 0
\* when it does not match there.  The patterns are
\*   subtitle   ([\(\[\{].*?[\)\]\}]|[/:\\].*$)
\*   bracketed  [({\[](\d{4}|omnibus|...|edition|ed\.)[\])}]
\*   edition    [({\[].*?(edition|ed.).*?[\]})]
\*   number     (\d+),(\d+)
\*   hyphen     (\s-)
\* and the point of a pattern matches every character but the newline.
MatchEnd(pattern, t, i) ==
    CASE pattern = "subtitle" ->
           IF t[i] \in Openers /\ FirstIn(t, i + 1, Closers \cup {"\n"}) # 0
                 /\ t[FirstIn(t, i + 1, Closers \cup {"\n"})] # "\n"
           THEN FirstIn(t, i + 1, Closers)
           ELSE IF t[i] \in {"/", ":", "\\"} /\ FirstIn(t, i + 1, {"\n"}) = 0
           THEN Len(t)
           ELSE IF t[i] \in {"/", ":", "\\"} /\ FirstIn(t, i + 1, {"\n"}) = Len(t)
           THEN Len(t) - 1
           ELSE 0
      [] pattern = "bracketed" ->
           IF t[i] \in Openers /\ BracketedEnds(t, i) # {}
           THEN MinOf(BracketedEnds(t, i)) ELSE 0
      [] pattern = "edition" ->
           IF t[i] \in Openers /\ EditionEnds(t, i) # {}
           THEN MinOf(EditionEnds(t, i)) ELSE 0
      [] pattern = "number" ->
           IF t[i] \in Digits /\ RunEnd(t, i, Digits) + 2 <= Len(t)
                 /\ t[RunEnd(t, i, Digits) + 1] = ","
                 /\ t[RunEnd(t, i, Digits) + 2] \in Digits
           THEN RunEnd(t, RunEnd(t, i, Digits) + 2, Digits) ELSE 0
      [] pattern = "hyphen" ->
           IF t[i] \in AsciiWhitespace /\ i < Len(t) /\ t[i + 1] = "-"
           THEN i + 1 ELSE 0

\* what the match of the pattern from i to e is replaced by: the two runs
\* of digits without their comma, a blank for the blank and its hyphen,
\* nothing for the other patterns
MatchRepl(pattern, t, i, e) ==
    CASE pattern = "number" ->
           SubSeq(t, i, RunEnd(t, i, Digits)) \o SubSeq(t, RunEnd(t, i, Digits) + 2, e)
      [] pattern = "hyphen" -> <<" ">>
      [] OTHER -> <<>>

\* pattern.sub(repl, t) from the position i on: the matches are taken from
\* left to right and do not overlap
RECURSIVE Sub(_, _, _)
Sub(pattern, t, i) ==
    IF i > Len(t) THEN <<>>
    ELSE IF MatchEnd(pattern, t, i) = 0 THEN <<t[i]>> \o Sub(pattern, t, i + 1)
    ELSE MatchRepl(pattern, t, i, MatchEnd(pattern, t, i))
             \o Sub(pattern, t, MatchEnd(pattern, t, i) + 1)

\* the title without its subtitles, when more than one character is left
SubtitleStripped(title, stripped) == IF Len(stripped) > 1 THEN stripped ELSE title

\* the class [:,;!@$%^&*(){}.`~"\s\[\]/] of the last title pattern
TitleSpecialChars ==
    {":", ",", ";", "!", "@", "$", "%", "^", "&", "*", "(", ")", "{", "}", ".",
     "U+0060", "~", "\"", "[", "]", "/"} \cup AsciiWhitespace
Joiners == {<<"a">>, <<"a", "n", "d">>, <<"t", "h", "e">>, <<"&">>}

\* the five title patterns, applied one after the other
TitlePatterned(t) ==
    Blanked(Sub("hyphen", Sub("number", Sub("edition", Sub("bracketed", t, 1), 1), 1), 1),
            TitleSpecialChars)

\* the tokens of the loop: each is stripped of blanks, of double and of
\* single quotes, the empty ones go and, with strip_joiners, the joining
\* words
TokensKept(tokens, strip_joiners) ==
    SelectSeq([i \in 1..Len(tokens) |->
                   StripChars(StripChars(Strip(tokens[i]), {"\""}), {"'"})],
              LAMBDA token : token # <<>>
                  /\ (~strip_joiners \/ lower(token) \notin Joiners))

\* Source.get_title_tokens(title, strip_joiners, strip_subtitle)
get_title_tokens(title, strip_joiners, strip_subtitle) ==
    IF ~Truthy(title) THEN <<>>
    ELSE TokensKept(
             SplitWords(TitlePatterned(
                 IF strip_subtitle
                 THEN SubtitleStripped(title[1], Sub("subtitle", title[1], 1))
                 ELSE title[1])),
             strip_joiners)

\* the class [-+.:;,] of replace_pat
AuthorReplaceChars == {"-", "+", ".", ":", ";", ","}
\* the class [!@#$%^&*(){}`~"\s\[\]/] of remove_pat
AuthorRemoveChars ==
    {"!", "@", "#", "$", "%", "^", "&", "*", "(", ")", "{", "}", "U+0060", "~",
     "\"", "[", "]", "/"} \cup AsciiWhitespace
AuthorNoise == {<<"v", "o", "n">>, <<"v", "a", "n">>,
                <<"u", "n", "k", "n", "o", "w", "n">>}

\* "Last, First" gives the first names before the last name
AuthorPartsOrdered(au, parts) ==
    IF Find(au, ",") # -1 /\ parts # <<>>
    THEN Tail(parts) \o <<parts[1]>> ELSE parts

AuthorPartsCleaned(ordered) ==
    [i \in 1..Len(ordered) |->
        SelectSeq(ordered[i], LAMBDA c : c \notin AuthorRemoveChars)]

AuthorPartsKept(cleaned) ==
    SelectSeq(cleaned, LAMBDA tok : Len(tok) > 2 /\ lower(tok) \notin AuthorNoise)

\* the tokens Source.get_author_tokens yields for one author
AuthorTokensOf(au) ==
    AuthorPartsKept(AuthorPartsCleaned(
        AuthorPartsOrdered(au, SplitWords(Blanked(au, AuthorReplaceChars)))))

RECURSIVE AllAuthorTokens(_)
AllAuthorTokens(authors) ==
    IF authors = <<>> THEN <<>>
    ELSE AuthorTokensOf(authors[1]) \o AllAuthorTokens(Tail(authors))

\* Source.get_author_tokens(authors, only_first_author): both call sites of
\* the plugin end up with only_first_author=True (the host's default).
get_author_tokens(authors, only_first_author) ==
    IF authors = <<>> THEN <<>>
    ELSE IF only_first_author THEN AuthorTokensOf(authors[1])
    ELSE AllAuthorTokens(authors)

Alnum == Digits \cup {UpperChars[i] : i \in 1..26} \cup {LowerChars[i] : i \in 1..26}
        \cup {"_", ".", "-", "/"}

\* the 128 ASCII characters in the order of their codes, from 0; those a
\* string cannot hold are written as their code points
AsciiChars == <<
  "U+0000", "U+0001", "U+0002", "U+0003", "U+0004", "U+0005", "U+0006",
  "U+0007", "U+0008", "\t", "\n", "", "\f", "\r", "U+000E", "U+000F",
  "U+0010", "U+0011", "U+0012", "U+0013", "U+0014", "U+0015", "U+0016",
  "U+0017", "U+0018", "U+0019", "U+001A", "U+001B", "", "", "", "", " ",
  "!", "\"", "#", "$", "%", "&", "'", "(", ")", "*", "+", ",", "-", ".", "/",
  "0", "1", "2", "3", "4", "5", "6", "7", "8", "9", ":", ";", "<", "=", ">",
  "?", "@", "A", "B", "C", "D", "E", "F", "G", "H", "I", "J", "K", "L", "M",
  "N", "O", "P", "Q", "R", "S", "T", "U", "V", "W", "X", "Y", "Z", "[", "\\",
  "]", "^", "_", "U+0060", "a", "b", "c", "d", "e", "f", "g", "h", "i", "j",
  "k", "l", "m", "n", "o", "p", "q", "r", "s", "t", "u", "v", "w", "x", "y",
  "z", "{", "|", "}", "~", "U+007F">>

\* ord(c) of an ASCII character; -1 for an element that is not one
AsciiCode(c) ==
    IF \E i \in 1..Len(AsciiChars) : AsciiChars[i] = c
    THEN (CHOOSE i \in 1..Len(AsciiChars) : AsciiChars[i] = c) - 1
    ELSE -1

\* urllib.quote: letters, digits and `_.-/` stay, any other ASCII character
\* becomes %XX with the two upper-case hex digits of its code; an element
\* that is not ASCII becomes "%" and itself, for the escapes of its UTF-8
\* bytes.
QuoteChar(c) ==
    IF c \in Alnum THEN <<c>>
    ELSE IF AsciiCode(c) = -1 THEN <<"%", c>>
    ELSE <<"%",
           <<"0", "1", "2", "3", "4", "5", "6", "7", "8", "9", "A", "B", "C",
             "D", "E", "F">>[(AsciiCode(c) \div 16) + 1],
           <<"0", "1", "2", "3", "4", "5", "6", "7", "8", "9", "A", "B", "C",
             "D", "E", "F">>[(AsciiCode(c) % 16) + 1]>>

RECURSIVE quote(_)
quote(t) == IF t = <<>> THEN <<>> ELSE QuoteChar(t[1]) \o quote(Tail(t))

(* ---------------------------------------------------------------------- *)
(* NaverBook (src/__init__.py): query building, matching, cache lookup.    *)
(*                                                                         *)
(* identifiers is a record with one optional text per identifier kind.     *)
(* ---------------------------------------------------------------------- *)

BASE_URL ==
    <<"h", "t", "t", "p", ":", "/", "/", "b", "o", "o", "k", ".", "n", "a", "v",
    "e", "r", ".", "c", "o", "m">>

\* '/bookdb/book_detail.nhn?bid=' on each side of its point (lines 50, 103
\* and the pattern of src/worker.py 200)
DetailPathHead ==
    <<"/", "b", "o", "o", "k", "d", "b", "/", "b", "o", "o", "k", "_", "d", "e",
    "t", "a", "i", "l">>
DetailPathTail == <<"n", "h", "n", "?", "b", "i", "d", "=">>

IsbnSearchPath ==
    <<"/", "s", "e", "a", "r", "c", "h", "/", "s", "e", "a", "r", "c", "h", ".",
    "n", "h", "n", "?", "s", "e", "r", "v", "i", "c", "e", "S", "m", "=", "a",
    "d", "v", "b", "o", "o", "k", ".", "b", "a", "s", "i", "c", "&", "i", "c",
    "=", "s", "e", "r", "v", "i", "c", "e", ".", "s", "u", "m", "m", "a", "r",
    "y", "&", "i", "s", "b", "n", "=">>
TextSearchPath ==
    <<"/", "s", "e", "a", "r", "c", "h", "/", "s", "e", "a", "r", "c", "h", ".",
    "n", "h", "n", "?", "s", "m", "=", "s", "t", "a", "_", "h", "t", "y", ".",
    "b", "o", "o", "k", "&", "q", "u", "e", "r", "y", "=">>

NoIdentifiers == [naverbook |-> None, isbn |-> None, goodreads |-> None]

\* Python truth of the identifiers mapping: it has some key
HasIdentifiers(ids) ==
    ids.naverbook # None \/ ids.isbn # None \/ ids.goodreads # None

\* the detail URL of lines 50 and 103
DetailUrl(naverbook_id) ==
    BASE_URL \o DetailPathHead \o <<".">> \o DetailPathTail \o naverbook_id

\* lines 67-72: [quote(t) for t in tokens]
Quoted(tokens) == [i \in 1..Len(tokens) |-> quote(tokens[i])]

\* lines 56-73: the part of the URL after BASE_URL, '' when nothing is built
QueryPath(isbn, title, authors, tokens) ==
    IF isbn # None
    THEN IsbnSearchPath \o isbn[1]
    ELSE IF Truthy(title) \/ authors # <<>>
    THEN TextSearchPath \o Join(tokens, <<"+">>)
    ELSE <<>>

\* lines 73-75
QueryOfPath(url) == IF url = <<>> THEN None ELSE Some(BASE_URL \o url)

\* NaverBook.create_query: None, or Some(url)
create_query(title, authors, ids) ==
    QueryOfPath(QueryPath(check_isbn(ids.isbn), title, authors,
                          Quoted(get_title_tokens(title, FALSE, TRUE))
                              \o Quoted(get_author_tokens(authors, TRUE))))

\* lines 186-187: some title token occurs in the entry's title
TitleMatches(title_tokens, title_l) ==
    title_tokens = <<>>
        \/ \E i \in 1..Len(title_tokens) : Contains(title_l, lower(title_tokens[i]))

\* lines 188-192: some author token occurs in the entry's authors
AuthorsMatch(author_tokens, authors_l) ==
    author_tokens = <<>>
        \/ \E i \in 1..Len(author_tokens) : Contains(authors_l, lower(author_tokens[i]))

\* the nested ismatch of _parse_search_results (lines 179-193)
ismatch(title_tokens, author_tokens, title, authors) ==
    TitleMatches(title_tokens, lower(title))
        /\ AuthorsMatch(author_tokens, lower(Join(authors, <<" ">>)))

\* the loop of lines 196-203 from entry i on: 0 when no entry matches, -1
\* when node.xpath('./dt/a')[0] raises IndexError, else the matched index.
\* An entry is [a |-> the ./dt/a anchors, each [text, href], authors |-> the
\* texts of its author links].
RECURSIVE MatchedNode(_, _, _, _)
MatchedNode(search_result, i, title_tokens, author_tokens) ==
    IF i > Len(search_result) THEN 0
    ELSE IF search_result[i].a = <<>> THEN -1
    ELSE IF ismatch(title_tokens, author_tokens,
                    Strip(search_result[i].a[1].text), search_result[i].authors)
         THEN i
    ELSE MatchedNode(search_result, i + 1, title_tokens, author_tokens)

\* matched_node.xpath('./dt/a/@href'): the hrefs of the anchors that have one
RECURSIVE Hrefs(_)
Hrefs(anchors) ==
    IF anchors = <<>> THEN <<>>
    ELSE anchors[1].href \o Hrefs(Tail(anchors))

\* the hrefs as `matches.extend(first_result_url_node)` would add them; used
\* to show that the single candidate rests on the [0] of line 214
WithEveryHref(matches, hrefs) == matches \o hrefs

\* lines 210-215: the first href of the matched entry joins matches
WithFirstHref(matches, hrefs) ==
    IF hrefs # <<>> THEN Append(matches, hrefs[1]) ELSE matches

\* lines 196-215, m being the outcome of the loop
MatchesAfter(root, matches, m) ==
    IF root = <<>> THEN [raised |-> FALSE, matches |-> matches]
    ELSE IF m = -1 THEN [raised |-> TRUE, matches |-> matches]
    ELSE IF m = 0 THEN [raised |-> FALSE, matches |-> matches]
    ELSE [raised |-> FALSE, matches |-> WithFirstHref(matches, Hrefs(root[m].a))]

\* NaverBook._parse_search_results: root is the list of result entries;
\* the result is [raised, matches] with matches the list after the call.
parse_search_results(orig_title, orig_authors, root, matches) ==
    MatchesAfter(root, matches,
                 MatchedNode(root, 1, get_title_tokens(orig_title, TRUE, FALSE),
                             get_author_tokens(orig_authors, TRUE)))

\* The host's two process-lifetime maps are sets of <<key, value>> pairs
\* with one value per key.
CacheGet(cache, key) ==
    IF \E p \in cache : p[1] = key
    THEN Some((CHOOSE p \in cache : p[1] = key)[2])
    ELSE None

CachePut(cache, key, value) == {p \in cache : p[1] # key} \cup {<<key, value>>}

\* lines 79-83 without the ISBN lookup of lines 80-83; used to show that the
\* cache-first property covers the isbn chain
CachedIdDirectOnly(ids, isbn_map) == ids.naverbook

\* lines 79-83: the catalog id of the identifiers, else the one cached for
\* their ISBN
CachedId(ids, isbn_map) ==
    IF ids.naverbook # None THEN ids.naverbook
    ELSE IF ids.isbn # None THEN CacheGet(isbn_map, ids.isbn[1])
    ELSE None

\* lines 84-87
CoverOfId(naverbook_id, cover_map) ==
    IF naverbook_id # None THEN CacheGet(cover_map, naverbook_id[1]) ELSE None

\* NaverBook.get_cached_cover_url
get_cached_cover_url(ids, isbn_map, cover_map) ==
    CoverOfId(CachedId(ids, isbn_map), cover_map)

(* ---------------------------------------------------------------------- *)
(* Worker (src/worker.py): the field extractors.                           *)
(*                                                                         *)
(* A detail page is a record of what each xpath of the Worker finds:       *)
(*   og_title   the og:title contents (a list of texts)                    *)
(*   info       the text of book_info_inner/div[2]; None when no such node *)
(*   isbn_nodes the texts of the book_info_inner/div nodes                 *)
(*   rating     the texts of the txt_desc_point nodes                      *)
(*   comments   "absent", "html" or "raise" for bookIntroContent           *)
(*   og_image   the og:image contents (a list of URLs)                     *)
(*   genres     the genre breadcrumbs (a list of texts)                    *)
(* The Hangul syllables of the page labels are single elements named by    *)
(* their romanisation ("jeo" "ja" = author, "yeok" "ja" = translator,      *)
(* "jeom" = points).  An extractor returns [ok, v]: ok is FALSE when the   *)
(* Python code raises.                                                     *)
(* ---------------------------------------------------------------------- *)

Ok(v) == [ok |-> TRUE, v |-> v]
Raised == [ok |-> FALSE, v |-> None]

\* a call without its try/except; used to show that the emitted record
\* rests on the guards of lines 144-184
Unguarded(r, fallback) == r

\* try: x = f()  except: log  -- the failure is swallowed, x keeps fallback
TryExcept(r, fallback) == IF r.ok THEN r ELSE Ok(fallback)

\* the digits at the front of s
RECURSIVE LeadingDigits(_)
LeadingDigits(s) ==
    IF s = <<>> \/ s[1] \notin Digits THEN <<>>
    ELSE <<s[1]>> \o LeadingDigits(Tail(s))

\* The 0-based positions of the URL where the pattern of line 200 matches:
\* '/bookdb/book_detail', any character but a newline (the point of the
\* pattern is not escaped), 'nhn?bid=' and an ASCII digit.
BidHits(url) ==
    {i \in 0..(Len(url) - Len(DetailPathHead) - Len(DetailPathTail) - 2) :
        /\ Slice(url, i, i + Len(DetailPathHead)) = DetailPathHead
        /\ url[i + Len(DetailPathHead) + 1] # "\n"
        /\ Slice(url, i + Len(DetailPathHead) + 1,
                 i + Len(DetailPathHead) + 1 + Len(DetailPathTail)) = DetailPathTail
        /\ url[i + Len(DetailPathHead) + Len(DetailPathTail) + 2] \in Digits}

\* Worker.parse_naverbook_id: the digits of the leftmost match of
\* re.search(...bid=(\d+)) on the URL; the .groups of a failed search raises
parse_naverbook_id(url) ==
    IF BidHits(url) = {} THEN Raised
    ELSE Ok(Some(LeadingDigits(
             Slice(url, MinOf(BidHits(url)) + Len(DetailPathHead)
                            + Len(DetailPathTail) + 1, Len(url)))))

AuthorLabel == <<"jeo", "ja", " ">>
TranslatorLabel == <<"yeok", "ja">>
TranslatorSuffix == <<"(", "yeok", "ja", ")">>

\* the length of the match of `\s*` at the front of s
LeadingBlanks(s) ==
    IF \A i \in 1..Len(s) : s[i] \in AsciiWhitespace THEN Len(s)
    ELSE (CHOOSE i \in 1..Len(s) :
              /\ s[i] \notin AsciiWhitespace
              /\ \A j \in 1..(i-1) : s[j] \in AsciiWhitespace) - 1

DropLeadingBlanks(s) == Slice(s, LeadingBlanks(s), Len(s))

\* re.sub('yeokja\s*', '', s)
RECURSIVE RemoveLabelAndBlanks(_, _)
RemoveLabelAndBlanks(s, label) ==
    IF Len(s) < Len(label) THEN s
    ELSE IF StartsWith(s, label)
         THEN RemoveLabelAndBlanks(
                  DropLeadingBlanks(Slice(s, Len(label), Len(s))), label)
    ELSE <<s[1]>> \o RemoveLabelAndBlanks(Tail(s), label)

\* line 272: map(lambda x: x + '(yeokja)', translators)
WithSuffix(translators) ==
    [i \in 1..Len(translators) |-> translators[i] \o TranslatorSuffix]

\* lines 270-275
AuthorsAndTranslators(authors, parts, get_all_authors) ==
    IF ~get_all_authors THEN Ok(Some(authors))
    ELSE IF Len(parts) < 2 THEN Raised
    ELSE IF StartsWith(parts[2], TranslatorLabel)
         THEN Ok(Some(authors \o WithSuffix(
                  Split(RemoveLabelAndBlanks(parts[2], TranslatorLabel), ","))))
    ELSE Ok(Some(authors))

\* lines 262-275
AuthorsOfParts(parts, get_all_authors) ==
    AuthorsAndTranslators(Split(Strip(parts[1]), ","), parts, get_all_authors)

\* lines 258-275
AuthorsOfText(part_text, get_all_authors) ==
    IF part_text = <<>> THEN Ok(None)
    ELSE AuthorsOfParts(Split(part_text, "|"), get_all_authors)

\* Worker.parse_authors: None, or Some(list of author texts)
parse_authors(page, get_all_authors) ==
    IF page.info = None THEN Raised
    ELSE AuthorsOfText(RemoveAll(Strip(page.info[1]), AuthorLabel), get_all_authors)

\* the days of a month of the proleptic Gregorian calendar
DaysInMonth(year, month) ==
    IF month = 2
    THEN (IF year % 4 = 0 /\ (year % 100 # 0 \/ year % 400 = 0) THEN 29 ELSE 28)
    ELSE IF month \in {4, 6, 9, 11} THEN 30
    ELSE 31

\* datetime.datetime(year, month, day): a raise when a slice is no integer
\* or datetime rejects the year, the month or the day
DateOf(year, month, day) ==
    IF year = None \/ month = None \/ day = None THEN Raised
    ELSE IF year[1] \notin 1..9999 \/ month[1] \notin 1..12 THEN Raised
    ELSE IF day[1] \notin 1..DaysInMonth(year[1], month[1]) THEN Raised
    ELSE Ok(<<year[1], month[1], day[1]>>)

\* Worker._convert_date_text: <<year, month, day>>, or a raise
convert_date_text(date_text) ==
    DateOf(ParseInt(Slice(date_text, 0, 4)),
           ParseInt(Slice(date_text, 5, 7)),
           ParseInt(Slice(date_text, 8, Len(date_text))))

\* lines 286-287
PublisherAndDate(publisher_text, pubdate) ==
    IF pubdate.ok THEN Ok(<<Some(publisher_text), Some(pubdate.v)>>) ELSE Raised

\* lines 282-287: parts[-2] raises on a single part
PublisherDateOfParts(parts) ==
    IF Len(parts) < 2 THEN Raised
    ELSE PublisherAndDate(Strip(parts[Len(parts) - 1]),
                          convert_date_text(Strip(parts[Len(parts)])))

\* lines 279-287: the None of line 281 cannot be unpacked by line 157
PublisherDateOfText(part_text) ==
    IF part_text = <<>> THEN Raised
    ELSE PublisherDateOfParts(Split(part_text, "|"))

\* Worker.parse_publisher_date, with the tuple assignment of line 157:
\* <<publisher, pubdate>>, or a raise
parse_publisher_date(page) ==
    IF page.info = None THEN Raised
    ELSE PublisherDateOfText(Strip(page.info[1]))

\* line 295: the source scale is 0-10, the result is value/2, kept exact as
\* <<numerator, denominator>>
HalfOf(value) ==
    IF value = None THEN Raised
    ELSE Ok(Some(Ratio(value[1][1], 2 * value[1][2])))

\* Worker.parse_rating
parse_rating(page) ==
    IF page.rating = <<>> THEN Ok(None)
    ELSE HalfOf(ParseFloat(RemoveAll(page.rating[1], <<"jeom">>)))

\* Worker.parse_comments
parse_comments(page) ==
    IF page.comments = "raise" THEN Raised
    ELSE IF page.comments = "absent" THEN Ok(None)
    ELSE Ok(Some(page.comments))

IsbnChars == Digits \cup {UpperChars[i] : i \in 1..26}
IsbnMinRun == 10

\* where a run of at least IsbnMinRun characters of [0-9A-Z] starts
IsbnStarts(text) ==
    {i \in 1..(Len(text) - IsbnMinRun + 1) :
        \A k \in i..(i + IsbnMinRun - 1) : text[k] \in IsbnChars}

\* where the run that starts at i ends
IsbnRunEnd(text, i) ==
    CHOOSE e \in i..Len(text) :
        /\ \A k \in i..e : text[k] \in IsbnChars
        /\ (e = Len(text) \/ text[e + 1] \notin IsbnChars)

\* re.search('([0-9A-Z]{10,})', text): the leftmost run, taken greedily
IsbnSearch(text) ==
    IF IsbnStarts(text) = {} THEN None
    ELSE Some(SubSeq(text, MinOf(IsbnStarts(text)),
                     IsbnRunEnd(text, MinOf(IsbnStarts(text)))))

\* lines 329-330: a match rebinds isbn_text
Rebound(match, isbn_text) == IF match # None THEN match ELSE isbn_text

\* the loop of Worker.parse_isbn: isbn_text is whatever the last matching
\* node assigned, None while no node has matched
RECURSIVE LastIsbnText(_, _)
LastIsbnText(isbn_nodes, isbn_text) ==
    IF isbn_nodes = <<>> THEN isbn_text
    ELSE LastIsbnText(Tail(isbn_nodes),
                      Rebound(IsbnSearch(Strip(isbn_nodes[1])), isbn_text))

\* line 333: `return isbn_text.strip()` reads a name no node bound when
\* nothing matched (UnboundLocalError)
StrippedIsbn(isbn_text) ==
    IF isbn_text = None THEN Raised ELSE Ok(Some(Strip(isbn_text[1])))

\* Worker.parse_isbn
parse_isbn(page) == StrippedIsbn(LastIsbnText(page.isbn_nodes, None))

CoverMinLength == 1000

\* line 319: `if int(info.getheader('Content-Length')) > 1000`
CoverOfLength(img_url, length) ==
    IF length = None THEN Raised
    ELSE IF length[1] > CoverMinLength THEN Ok(Some(img_url))
    ELSE Ok(None)

\* Worker.parse_cover: head is the outcome of the follow-up fetch of the
\* image URL, [raised, content_length] with content_length the header text
\* or None
parse_cover(page, head) ==
    IF page.og_image = <<>> THEN Ok(None)
    ELSE IF head.raised THEN Raised
    ELSE IF head.content_length = None THEN Raised
    ELSE CoverOfLength(page.og_image[1], HeaderInt(head.content_length[1]))

\* whether parse_cover issues its follow-up fetch
CoverFetchIssued(page) == page.og_image # <<>>

\* lines 361-363: the tags not yet in tags_to_add are appended in order
RECURSIVE AddTags(_, _)
AddTags(tags_to_add, tags) ==
    IF tags = <<>> THEN tags_to_add
    ELSE AddTags(IF \E i \in 1..Len(tags_to_add) : tags_to_add[i] = tags[1]
                 THEN tags_to_add ELSE Append(tags_to_add, tags[1]),
                 Tail(tags))

\* calibre_tag_map.get(genre_tag.lower(), None): genre_mappings is a set of
\* <<genre, tags>> pairs with one pair per lower-cased genre
MappedTags(genre_tag, genre_mappings) ==
    IF \E m \in genre_mappings : lower(m[1]) = lower(genre_tag)
    THEN (CHOOSE m \in genre_mappings : lower(m[1]) = lower(genre_tag))[2]
    ELSE <<>>

\* Worker._convert_genres_to_calibre_tags
RECURSIVE convert_genres_to_calibre_tags(_, _, _)
convert_genres_to_calibre_tags(genre_tags, genre_mappings, tags_to_add) ==
    IF genre_tags = <<>> THEN tags_to_add
    ELSE convert_genres_to_calibre_tags(
             Tail(genre_tags), genre_mappings,
             AddTags(tags_to_add, MappedTags(genre_tags[1], genre_mappings)))

\* lines 349-351
TagsIfAny(calibre_tags) ==
    IF Len(calibre_tags) > 0 THEN Ok(Some(calibre_tags)) ELSE Ok(None)

\* line 348: the texts of a node's links are joined with ' > '
GenreSeparator == <<" ", ">", " ">>

\* line 345: `[sgn.text_content().strip() for sgn in sub_genre_nodes]`
StrippedTexts(texts) == [i \in 1..Len(texts) |-> Strip(texts[i])]

\* lines 343-348: one genre tag per node that has links; a node is the list
\* of the texts of its `a` children, and one without links is passed over
RECURSIVE GenreTags(_)
GenreTags(genres_node) ==
    IF genres_node = <<>> THEN <<>>
    ELSE (IF genres_node[1] # <<>>
          THEN <<Join(StrippedTexts(genres_node[1]), GenreSeparator)>>
          ELSE <<>>) \o GenreTags(Tail(genres_node))

\* Worker.parse_tags: page.genres is the list of the genre nodes;
\* genre_mappings is None when the stored configuration has no
\* KEY_GENRE_MAPPINGS entry (the lookup of line 355 raises KeyError, also
\* when no node has a link)
parse_tags(page, genre_mappings) ==
    IF page.genres = <<>> THEN Ok(None)
    ELSE IF genre_mappings = None THEN Raised
    ELSE TagsIfAny(convert_genres_to_calibre_tags(GenreTags(page.genres),
                                                  genre_mappings[1], <<>>))

\* Worker._parse_language
parse_language(page) == Ok(Some("Korean"))

(* ---------------------------------------------------------------------- *)
(* Worker.parse_details (src/worker.py 112-197)                            *)
(* ---------------------------------------------------------------------- *)

\* the gate of line 131 without its authors test; used to show that the
\* records' author lists rest on it
RequiredMissingNoAuthors(title, authors, naverbook_id) ==
    ~Truthy(title) \/ ~Truthy(naverbook_id)

\* line 131: `if not title or not authors or not naverbook_id`
RequiredMissing(title, authors, naverbook_id) ==
    ~Truthy(title) \/ ~Truthy(authors) \/ ~Truthy(naverbook_id)

\* the words cap_author_token leaves in lower case
AuthorParticles ==
    {<<"v", "o", "n">>, <<"d", "e">>, <<"e", "l">>, <<"v", "a", "n">>,
     <<"l", "e">>}

\* a character `[^\d\W]` of a pattern under re.UNICODE matches: a letter or
\* the underscore.  Of the characters outside ASCII the decimal digits and
\* the blanks are told apart, any other counts as a letter.
IsWordLetter(c) ==
    IF AsciiCode(c) = -1 THEN c \notin UnicodeDigits \cup Whitespace
    ELSE c = "_" \/ AsciiLower(c) # c \/ (\E i \in 1..26 : LowerChars[i] = c)

\* re.match(r'([^\d\W]\.){2,}$', lt, re.UNICODE): initials, each with its
\* point, at least two of them
IsInitials(lt) ==
    /\ Len(lt) >= 4
    /\ Len(lt) % 2 = 0
    /\ \A i \in 1..Len(lt) :
           IF i % 2 = 1 THEN IsWordLetter(lt[i]) ELSE lt[i] = "."

\* '. '.join(map(capitalize, token.split('.'))).strip()
InitialsSpaced(token) ==
    Strip(Join([i \in 1..Len(Split(token, ".")) |->
                   capitalize(Split(token, ".")[i])], <<".", " ">>))

\* the length of the Scots prefix of a token, 0 without one: 'mc' or 'mac'
\* in either case with more after it, the next character in upper case or
\* the whole token in lower case
ScotsPrefix(token, lt, x) ==
    /\ StartsWith(lower(token), x)
    /\ Len(token) > Len(x)
    /\ (token[Len(x) + 1] = UpperChar(token[Len(x) + 1]) \/ lt = token)

ScotsName(token, lt) ==
    IF ScotsPrefix(token, lt, <<"m", "c">>) THEN 2
    ELSE IF ScotsPrefix(token, lt, <<"m", "a", "c">>) THEN 3
    ELSE 0

\* ans with the upper case of its character at the 0-based place idx
UpperAt(ans, idx) == [ans EXCEPT ![idx + 1] = UpperChar(@)]

\* the character after the first x of ans in upper case, when ans has an x
\* with at least two characters after it
UpperAfter(ans, x) ==
    IF Find(ans, x) > -1 /\ Len(ans) > Find(ans, x) + 2
    THEN UpperAt(ans, Find(ans, x) + 1)
    ELSE ans

\* the capitalised token with the letter after a Scots prefix, after the
\* first '-' and after the first apostrophe in upper case
Capped(ans, scots_name) ==
    UpperAfter(UpperAfter(IF scots_name # 0 THEN UpperAt(ans, scots_name) ELSE ans,
                          "-"), "'")

\* the host's cap_author_token
cap_author_token(token) ==
    IF lower(token) \in AuthorParticles THEN lower(token)
    ELSE IF IsInitials(lower(token)) THEN InitialsSpaced(token)
    ELSE Capped(capitalize(token), ScotsName(token, lower(token)))

\* ' '.join(map(cap_author_token, x.split()))
AuthorFixed(x) ==
    Join([i \in 1..Len(SplitWords(x)) |-> cap_author_token(SplitWords(x)[i])],
         <<" ">>)

\* the host's fixauthors
fixauthors(authors) == [i \in 1..Len(authors) |-> AuthorFixed(authors[i])]

\* the host's Source.clean_downloaded_metadata, for a record whose language
\* is set and is not English: the authors are capitalised and the ISBN is
\* re-validated
clean_downloaded_metadata(mi) ==
    [mi EXCEPT !.authors = fixauthors(@), !.isbn = check_isbn(@)]

\* lines 146-147: `if isbn: self.isbn = mi.isbn = isbn`
KeptIsbn(isbn) == IF Truthy(isbn) THEN isbn ELSE None

\* The Metadata object of lines 137-186.  title_series is the triple of
\* parse_title_series; optional is the list of what the seven guarded
\* extractors left behind, in the order of the code: isbn, rating,
\* publisher/date, comments, cover, tags, language.  Line 170: has_cover is
\* bool(self.cover_url), false for no URL and for the empty one.
Metadata(title_series, authors, naverbook_id, relevance, optional) ==
    [title |-> OrEmpty(title_series[1]),
     authors |-> OrEmpty(authors),
     series |-> IF Truthy(title_series[2]) THEN title_series[2] ELSE None,
     series_index |-> IF Truthy(title_series[2]) THEN title_series[3] ELSE None,
     naverbook |-> naverbook_id,
     isbn |-> KeptIsbn(optional[1].v),
     rating |-> optional[2].v,
     publisher |-> optional[3].v[1],
     pubdate |-> optional[3].v[2],
     comments |-> optional[4].v,
     has_cover |-> Truthy(optional[5].v),
     tags |-> optional[6].v,
     language |-> optional[7].v,
     source_relevance |-> relevance]

\* The result of one run of parse_details:
\*   escaped   an exception left parse_details (Worker.run logs it)
\*   mi        None, or Some(the record mi as it stands at line 186)
\*   isbn, naverbook_id, cover_url   the Worker's fields after the run
\*   head_fetch  whether parse_cover issued its follow-up fetch
NoDetails ==
    [escaped |-> FALSE, mi |-> None, isbn |-> None, naverbook_id |-> None,
     cover_url |-> None, head_fetch |-> FALSE]

\* lines 144-197: the extractors run in order; a failure that is not
\* swallowed ends the run before the record is put on the queue
DetailsOfOptional(title_series, authors, naverbook_id, relevance, optional, cover_fetch) ==
    IF \E i \in 1..Len(optional) : ~optional[i].ok
    THEN [NoDetails EXCEPT
             !.escaped = TRUE,
             !.head_fetch = cover_fetch /\ \A i \in 1..4 : optional[i].ok]
    ELSE [escaped |-> FALSE,
          mi |-> Some(Metadata(title_series, authors, naverbook_id, relevance,
                               optional)),
          isbn |-> KeptIsbn(optional[1].v),
          naverbook_id |-> naverbook_id,
          cover_url |-> optional[5].v,
          head_fetch |-> cover_fetch]

\* lines 131-197, the three required fields being extracted; cover_r is
\* what parse_cover gives at line 167
DetailsOfRequired(id_r, ts_r, au_r, relevance, page, cover_r, genre_mappings) ==
    IF ~id_r.ok \/ ~ts_r.ok \/ ~au_r.ok THEN [NoDetails EXCEPT !.escaped = TRUE]
    ELSE IF RequiredMissing(ts_r.v[1], au_r.v, id_r.v) THEN NoDetails
    ELSE DetailsOfOptional(ts_r.v, au_r.v, id_r.v, relevance,
             <<TryExcept(parse_isbn(page), None),
               TryExcept(parse_rating(page), None),
               TryExcept(parse_publisher_date(page), <<None, None>>),
               TryExcept(parse_comments(page), None),
               TryExcept(cover_r, None),
               TryExcept(parse_tags(page, genre_mappings), None),
               TryExcept(parse_language(page), None)>>,
             CoverFetchIssued(page))

\* Worker.parse_details, cover_r being what parse_cover gives at line 167
parse_details(url, relevance, page, cover_r, get_all_authors, genre_mappings) ==
    DetailsOfRequired(
        TryExcept(parse_naverbook_id(url), None),
        TryExcept(Ok(parse_title_series(page.og_title)), <<None, None, None>>),
        TryExcept(parse_authors(page, get_all_authors), Some(<<>>)),
        relevance, page, cover_r, genre_mappings)

(* ---------------------------------------------------------------------- *)
(* The inputs of the model: criteria, listings, detail pages, responses.   *)
(* ---------------------------------------------------------------------- *)

MaxListing == 2

Txt61HoursSeries ==
    <<"6", "1", " ", "H", "o", "u", "r", "s", " ", "(", "J", "a", "c", "k", " ",
      "R", "e", "a", "c", "h", "e", "r", ")">>
TxtBang == <<"!">>
TxtLeeChild == <<"L", "e", "e", " ", "C", "h", "i", "l", "d">>
TxtIsbn == <<"9", "7", "8", "0", "3", "8", "5", "3", "4", "0", "5", "8", "8">>
TxtIsbnHyphen == <<"9", "7", "8", "-", "0", "3", "8", "5", "3", "4", "0", "5", "8", "8">>
TxtBadIsbn == <<"1", "2", "3">>
TxtId12 == <<"1", "2">>
TxtIdX == <<"x">>
TxtGoodreads == <<"6", "9", "7", "7", "7", "6", "9">>

Crit(title, authors, ids) ==
    [title |-> title, authors |-> authors, identifiers |-> ids]

\* the calls the host makes: no criteria at all, a title without a token,
\* an author alone, the book of the plugin's own tests by title and author,
\* with an ISBN, with an ISBN that is none and with the id of another site,
\* and the identifiers on their own
Criteria ==
    {Crit(None, <<>>, NoIdentifiers),
     Crit(Some(TxtBang), <<>>, NoIdentifiers),
     Crit(None, <<TxtLeeChild>>, NoIdentifiers),
     Crit(Some(Txt61HoursSeries), <<TxtLeeChild>>, NoIdentifiers),
     Crit(Some(Txt61HoursSeries), <<TxtLeeChild>>,
          [NoIdentifiers EXCEPT !.isbn = Some(TxtIsbn)]),
     Crit(Some(Txt61HoursSeries), <<TxtLeeChild>>,
          [NoIdentifiers EXCEPT !.isbn = Some(TxtBadIsbn)]),
     Crit(Some(Txt61HoursSeries), <<TxtLeeChild>>,
          [NoIdentifiers EXCEPT !.goodreads = Some(TxtGoodreads)]),
     Crit(None, <<>>, [NoIdentifiers EXCEPT !.naverbook = Some(TxtId12)]),
     Crit(None, <<>>, [NoIdentifiers EXCEPT !.naverbook = Some(TxtIdX)]),
     Crit(None, <<>>, [NoIdentifiers EXCEPT !.isbn = Some(TxtIsbn)]),
     Crit(None, <<>>, [NoIdentifiers EXCEPT !.isbn = Some(TxtIsbnHyphen)]),
     Crit(None, <<>>,
          [NoIdentifiers EXCEPT !.naverbook = Some(TxtIdX), !.isbn = Some(TxtIsbn)])}

\* the calls of download_cover the host makes: for no criteria, for the
\* book by title and author, and for a record by its identifiers
CoverCriteria ==
    {Crit(None, <<>>, NoIdentifiers),
     Crit(Some(Txt61HoursSeries), <<TxtLeeChild>>, NoIdentifiers),
     Crit(None, <<>>, [NoIdentifiers EXCEPT !.naverbook = Some(TxtId12)]),
     Crit(None, <<>>, [NoIdentifiers EXCEPT !.isbn = Some(TxtIsbn)]),
     Crit(None, <<>>,
          [NoIdentifiers EXCEPT !.naverbook = Some(TxtIdX), !.isbn = Some(TxtIsbn)])}

\* result entries of a listing page
EntryHours == [a |-> <<[text |-> <<" ", "6", "1", " ", "H", "o", "u", "r", "s", " ">>, href |-> Some(DetailUrl(TxtId12))]>>,
               authors |-> <<TxtLeeChild>>]
\* a link whose path has '-' where the detail path has its point
DashUrl(naverbook_id) ==
    BASE_URL \o DetailPathHead \o <<"-">> \o DetailPathTail \o naverbook_id

EntryOther == [a |-> <<[text |-> <<"U", "n", "r", "e", "l", "a", "t", "e", "d">>, href |-> Some(DashUrl(TxtId12))],
                       [text |-> <<"N", "e", "w">>, href |-> Some(DetailUrl(TxtId12))]>>,
               authors |-> <<<<"N", "o", "b", "o", "d", "y">>>>]
EntryNoLink == [a |-> <<>>, authors |-> <<TxtLeeChild>>]
EntryNoHref == [a |-> <<[text |-> <<"6", "1", " ", "h", "o", "u", "r", "s">>, href |-> None]>>,
                authors |-> <<<<"L", "E", "E", " ", "C", "H", "I", "L", "D">>>>]
Entries == {EntryHours, EntryOther, EntryNoLink, EntryNoHref}


\* the sequences over S of length at most n
RECURSIVE SeqsUpTo(_, _)

Extended(shorter, S) == shorter \cup {Append(q, x) : q \in shorter, x \in S}

SeqsUpTo(S, n) == IF n = 0 THEN {<<>>} ELSE Extended(SeqsUpTo(S, n - 1), S)

Listings == SeqsUpTo(Entries, MaxListing)

\* what br.open_novisit(query) and the read/parse of lines 122-128 give:
\* the fetch raises, the body is empty, lxml rejects it, or it is a listing
SearchResponses ==
    {[kind |-> k, entries |-> <<>>] : k \in {"error", "empty", "unparsable"}}
        \cup {[kind |-> "listing", entries |-> l] : l \in Listings}

CoverUrl == <<"h", "t", "t", "p", ":", "/", "/", "i", "/", "c", ".", "j", "p", "g">>
GenreMap == {<<<<"n", "o", "v", "e", "l">>, <<"Fiction", "Novel">>>>, <<<<"e", "s", "s", "a", "y">>, <<"Fiction">>>>,
             <<<<"U+00C9", "s", "s", "a", "i">>, <<"Essay">>>>,
             <<<<"A", " ", ">", " ", "b">>, <<"Pair">>>>}

InfoFull == <<"jeo", "ja", " ", "A", ",", "B", "|", "yeok", "ja", " ", "K", "|", "P", "|", "2", "0", "1", "5", ".", "0", "1", ".", "0", "2">>
InfoNoDate == <<"jeo", "ja", " ", "A", "|", "P">>
InfoSingle == <<"jeo", "ja", " ", "A">>
InfoNoAuthor == <<"|", "P", "|", "U+FF12", "0", "1", "5", ".", "0", "1", ".", "0", "2">>

PageFull ==
    [parsable |-> TRUE, error_message |-> FALSE,
     og_title |-> <<<<"T", " ", "(", "S", " ", "#", "1", ")">>>>,
     info |-> Some(InfoFull),
     isbn_nodes |-> <<<<"I", "S", "B", "N", " ", "9", "7", "8", "0", "3", "8", "5", "3", "4", "0", "5", "8", "8">>>>,
     rating |-> <<<<"8", "jeom">>>>,
     comments |-> "html",
     og_image |-> <<CoverUrl>>,
     genres |-> <<<<<<"N", "o", "v", "e", "l">>>>>>]
PageBare ==
    [parsable |-> TRUE, error_message |-> FALSE,
     og_title |-> <<<<"T">>>>,
     info |-> Some(InfoNoDate),
     isbn_nodes |-> <<>>,
     rating |-> <<>>,
     comments |-> "absent",
     og_image |-> <<>>,
     genres |-> <<>>]
PageError == [PageBare EXCEPT !.error_message = TRUE]
PageUnparsable == [PageBare EXCEPT !.parsable = FALSE]

CorePages == {PageFull, PageError, PageUnparsable}

\* what browser.open_novisit(self.url) gives a Worker
FetchFailures == {"http404", "timeout", "error"}
DetailResponses(pages) ==
    {[kind |-> k, page |-> PageError] : k \in FetchFailures}
        \cup {[kind |-> "page", page |-> pg] : pg \in pages}

\* the bound on the Workers of earlier calls still alive when the host makes
\* its next call
MaxStale == 1

\* what the follow-up fetch of the cover URL gives parse_cover
HeadOutcomes ==
    {[raised |-> TRUE, content_length |-> None],
     [raised |-> FALSE, content_length |-> None],
     [raised |-> FALSE, content_length |-> Some(<<"1", "0", "0", "0">>)],
     [raised |-> FALSE, content_length |-> Some(<<"1", "0", "0", "1">>)],
     [raised |-> FALSE, content_length |-> Some(<<"", "1", "0", "0", "1">>)],
     [raised |-> FALSE, content_length |-> Some(<<"U+FF11", "U+FF10", "U+FF10", "U+FF11">>)]}

Configs ==
    {[get_all_authors |-> g, genre_mappings |-> m] :
        g \in BOOLEAN, m \in {None, Some(GenreMap)}}
DefaultConfig == [get_all_authors |-> FALSE, genre_mappings |-> Some(GenreMap)]

(* ---------------------------------------------------------------------- *)
(* State.                                                                  *)
(* ---------------------------------------------------------------------- *)

VARIABLES
    op,            \* the public entry point in progress: "none", "identify", "download_cover"
    crit,          \* its arguments: [title, authors, identifiers]
    config,        \* the stored plugin preferences
    abort,         \* the caller's cancellation Event
    ipc,           \* identify: "idle", "lookup", "fetching", "check", "start", "join", "returned", "raised"
    identifiers,   \* the identifiers argument of the running identify invocation
    calls,         \* identify invocations of this top-level call (1 + recursion depth)
    root,          \* the parsed listing of the running invocation, None without one
    matches,       \* identify's matches list
    iret,          \* identify's return value: "None" or "message"
    workers,       \* identify's Workers: [url, relevance, st, page, naverbook_id, isbn, cover_url, mi, ran]
    stale,         \* the Workers of earlier calls that are still alive
    result_queue,  \* the queue identify was given; its Workers put records on it
    dpc,           \* download_cover: "none", "identify", "fetch", "image", "returned", "raised"
    cached_url,    \* download_cover's cached_url
    cover_queue,   \* download_cover's result_queue
    isbn_cache,    \* the plugin's isbn -> naverbook id map
    cover_cache,   \* the plugin's naverbook id -> cover url map
    net,           \* fetches issued by this top-level call and its Workers, by kind
    early          \* abort was set in this top-level call while no Worker had started

vars == <<op, crit, config, abort, ipc, identifiers, calls, root, matches, iret,
          workers, stale, result_queue, dpc, cached_url, cover_queue,
          isbn_cache, cover_cache, net, early>>

\* A Worker: url and relevance are its arguments, page the parsed page it
\* fetched, naverbook_id, isbn and cover_url its fields of these names, mi
\* the record parse_details builds, and st its place in run():
\*   "created"  constructed, not started
\*   "started"  before the fetch of line 63
\*   "fetching" in the fetch of line 63, waiting for the site
\*   "fetched"  at line 110, the page fetched and accepted
\*   "cover"    in parse_cover, waiting for the follow-up fetch of line 318
\*   "parsed"   at lines 188-197, ran of their statements done
\*   "done"     run() has ended

NoFetches == [search |-> 0, detail |-> 0, head |-> 0, image |-> 0]
NoCriteria == [title |-> None, authors |-> <<>>, identifiers |-> NoIdentifiers]

WorkersDone == \A i \in 1..Len(workers) : workers[i].st = "done"
NoWorkerStarted == \A i \in 1..Len(workers) : workers[i].st = "created"

\* the top-level call has returned to its caller (or raised)
TopReturned ==
    \/ op = "identify" /\ ipc \in {"returned", "raised"}
    \/ op = "download_cover" /\ dpc \in {"returned", "raised"}

\* the host may make its next call: no call is in progress.  The Workers of
\* a call that returned on the signal may still be running.
Idle == op = "none" \/ TopReturned

\* Thread.is_alive(): started and not yet ended
Alive(w) == w.st \notin {"created", "done"}

AliveOf(ws) == SelectSeq(ws, Alive)

Init ==
    /\ op = "none"
    /\ crit = NoCriteria
    /\ config = DefaultConfig
    /\ abort = FALSE
    /\ ipc = "idle"
    /\ identifiers = NoIdentifiers
    /\ calls = 0
    /\ root = None
    /\ matches = <<>>
    /\ iret = "None"
    /\ workers = <<>>
    /\ stale = <<>>
    /\ result_queue = <<>>
    /\ dpc = "none"
    /\ cached_url = None
    /\ cover_queue = <<>>
    /\ isbn_cache = {}
    /\ cover_cache = {}
    /\ net = NoFetches
    /\ early = FALSE

(* ---------------------------------------------------------------------- *)
(* The caller.                                                             *)
(* ---------------------------------------------------------------------- *)

\* what every new top-level call starts from: a fresh Event, fresh queues.
\* The Workers of the call before that are still alive run on; their queue
\* is the one that call was given, which this call does not see.
FreshCall(c) ==
    /\ Len(stale) + Len(AliveOf(workers)) <= MaxStale
    /\ crit' = c
    /\ abort' = FALSE
    /\ root' = None
    /\ matches' = <<>>
    /\ iret' = "None"
    /\ workers' = <<>>
    /\ stale' = stale \o AliveOf(workers)
    /\ result_queue' = <<>>
    /\ cover_queue' = <<>>
    /\ net' = NoFetches
    /\ early' = FALSE
    /\ UNCHANGED <<config, isbn_cache, cover_cache>>

\* the host calls identify(log, result_queue, abort, title, authors, identifiers)
CallIdentify ==
    /\ Idle
    /\ \E c \in Criteria :
           /\ FreshCall(c)
           /\ identifiers' = c.identifiers
    /\ op' = "identify"
    /\ ipc' = "lookup"
    /\ calls' = 1
    /\ dpc' = "none"
    /\ cached_url' = None

\* the caller sets the cancellation Event while its call is in progress
SetAbort ==
    /\ op # "none"
    /\ ~TopReturned
    /\ ~abort
    /\ abort' = TRUE
    /\ early' = (early \/ NoWorkerStarted)
    /\ UNCHANGED <<op, crit, config, ipc, identifiers, calls, root, matches, iret,
                   workers, result_queue, dpc, cached_url, cover_queue,
                   isbn_cache, cover_cache, net, stale>>


(* ---------------------------------------------------------------------- *)
(* NaverBook.identify (src/__init__.py 89-169)                             *)
(* ---------------------------------------------------------------------- *)

\* identify at line 137 with nothing matched
AtCheck ==
    [pc |-> "check", matches |-> <<>>, root |-> None, iret |-> "None"]

\* line 135: _parse_search_results is called outside any try
AfterListing(entries, r) ==
    [pc |-> IF r.raised THEN "raised" ELSE "check",
     matches |-> r.matches,
     root |-> Some(entries),
     iret |-> "None"]

\* lines 95-135 for one response of the site: where identify stands after
\* them (pc "check" = line 137, "returned", or "raised" when an exception
\* leaves identify), its matches, the parsed listing and the return value
identify_lookup(title, authors, ids, resp) ==
    IF Truthy(ids.naverbook)
    THEN [AtCheck EXCEPT !.matches = <<DetailUrl(ids.naverbook[1])>>]
    ELSE IF create_query(title, authors, ids) = None
         THEN [AtCheck EXCEPT !.pc = "returned"]
    ELSE IF resp.kind = "error"
         THEN [AtCheck EXCEPT !.pc = "returned", !.iret = "message"]
    ELSE IF Truthy(check_isbn(ids.isbn)) THEN AtCheck
    ELSE IF resp.kind = "empty"
         THEN [AtCheck EXCEPT !.pc = "returned"]
    ELSE IF resp.kind = "unparsable"
         THEN [AtCheck EXCEPT !.pc = "returned", !.iret = "message"]
    ELSE AfterListing(resp.entries,
                      parse_search_results(title, authors, resp.entries, <<>>))

\* the state after lines 95-135
LookupDone(r) ==
    /\ ipc' = r.pc
    /\ matches' = r.matches
    /\ root' = r.root
    /\ iret' = r.iret

\* lines 102-109: identify sends a query when it has no catalog id and
\* create_query gives one
QuerySent(title, authors, ids) ==
    ~Truthy(ids.naverbook) /\ create_query(title, authors, ids) # None

\* the response of a site that was not asked
NoResponse == [kind |-> "error", entries |-> <<>>]

\* lines 95-112: identify goes to line 137 with the URL of the catalog id,
\* returns without a query, or issues the listing fetch of line 112 and
\* waits for the site
IdentifyLookup ==
    /\ ipc = "lookup"
    /\ IF QuerySent(crit.title, crit.authors, identifiers)
       THEN /\ ipc' = "fetching"
            /\ net' = [net EXCEPT !.search = @ + 1]
            /\ UNCHANGED <<matches, root, iret>>
       ELSE /\ LookupDone(identify_lookup(crit.title, crit.authors, identifiers,
                                          NoResponse))
            /\ net' = net
    /\ UNCHANGED <<op, crit, config, abort, identifiers, calls, workers,
                   result_queue, dpc, cached_url, cover_queue, isbn_cache,
                   cover_cache, early, stale>>

\* lines 112-135: the site answers the listing fetch, or the fetch fails
IdentifyListing ==
    /\ ipc = "fetching"
    /\ \E resp \in SearchResponses :
           LookupDone(identify_lookup(crit.title, crit.authors, identifiers, resp))
    /\ UNCHANGED <<op, crit, config, abort, identifiers, calls, workers,
                   result_queue, dpc, cached_url, cover_queue, isbn_cache,
                   cover_cache, net, early, stale>>

\* line 141: `if identifiers and title and authors`
RetryWanted(ids, title, authors) ==
    HasIdentifiers(ids) /\ Truthy(title) /\ authors # <<>>

\* the recursive call as it would be with the identifiers passed on; used
\* to show that the bound on invocations rests on lines 144-145
KeepIdentifiers(ids) == ids

\* lines 144-145: the recursive call passes no identifiers
RetryIdentifiers(ids) == NoIdentifiers

\* the Workers as `enumerate(matches, 1)` would number them; used to show
\* that the records' rank rests on the numbering of lines 150-151
NewWorkersOneBased(urls) ==
    [i \in 1..Len(urls) |->
        [url |-> urls[i], relevance |-> i, st |-> "created", page |-> None,
         naverbook_id |-> None, isbn |-> None, cover_url |-> None, mi |-> None,
         ran |-> 0]]

\* lines 150-151: one Worker per match, its relevance the match's index;
\* Worker.__init__ (line 36) leaves cover_url, naverbook_id and isbn None
NewWorkers(urls) ==
    [i \in 1..Len(urls) |->
        [url |-> urls[i], relevance |-> i - 1, st |-> "created", page |-> None,
         naverbook_id |-> None, isbn |-> None, cover_url |-> None, mi |-> None,
         ran |-> 0]]

\* line 137: `if abort.is_set(): return`
AbortChecked == abort

\* lines 137-151; the listing stays with the invocation that goes on to its
\* Workers and goes with the frame of one that returns or calls itself
IdentifyCheck ==
    /\ ipc = "check"
    /\ root' = IF ~AbortChecked /\ matches # <<>> THEN root ELSE None
    /\ IF AbortChecked
       THEN /\ ipc' = "returned"
            /\ iret' = "None"
            /\ UNCHANGED <<identifiers, calls, matches, workers>>
       ELSE IF matches = <<>>
       THEN IF RetryWanted(identifiers, crit.title, crit.authors)
            THEN /\ ipc' = "lookup"
                 /\ identifiers' = RetryIdentifiers(identifiers)
                 /\ calls' = calls + 1
                 /\ UNCHANGED <<matches, iret, workers>>
            ELSE /\ ipc' = "returned"
                 /\ iret' = "None"
                 /\ UNCHANGED <<identifiers, calls, matches, workers>>
       ELSE /\ ipc' = "start"
            /\ workers' = NewWorkers(matches)
            /\ UNCHANGED <<identifiers, calls, matches, iret>>
    /\ UNCHANGED <<op, crit, config, abort, result_queue, dpc, cached_url,
                   cover_queue, isbn_cache, cover_cache, net, early, stale>>

\* the first Worker of the list that has not been started
NextToStart ==
    CHOOSE k \in 1..Len(workers) :
        workers[k].st = "created" /\ \A j \in 1..(k - 1) : workers[j].st # "created"

\* lines 153-156: start the next Worker, then sleep
IdentifyStart ==
    /\ ipc = "start"
    /\ workers' = [workers EXCEPT ![NextToStart].st = "started"]
    /\ ipc' = IF NextToStart = Len(workers) THEN "join" ELSE "start"
    /\ UNCHANGED <<op, crit, config, abort, identifiers, calls, root, matches,
                   iret, result_queue, dpc, cached_url, cover_queue, isbn_cache,
                   cover_cache, net, early, stale>>

\* the loop as a single pass of timed joins would end it: w.join(0.2)
\* returns after 0.2 s whether or not the Worker has finished; used to show
\* that the finished Workers rest on the loop of lines 158-167
JoinEndsAfterOnePass == TRUE

\* lines 158-167: `while not abort.is_set()` ends on the signal, the break
\* of line 167 after a pass that found no Worker alive
JoinLoopEnds == abort \/ WorkersDone

\* lines 158-169: the loop ends once abort is set or no Worker is alive
IdentifyJoin ==
    /\ ipc = "join"
    /\ JoinLoopEnds
    /\ ipc' = "returned"
    /\ iret' = "None"
    /\ root' = None
    /\ UNCHANGED <<op, crit, config, abort, identifiers, calls, matches,
                   workers, result_queue, dpc, cached_url, cover_queue,
                   isbn_cache, cover_cache, net, early, stale>>

(* ---------------------------------------------------------------------- *)
(* Worker.run (src/worker.py 54-197)                                       *)
(* ---------------------------------------------------------------------- *)

\* every running thread: identify's Workers, then those of earlier calls
Threads == workers \o stale

\* the thread i is a Worker of the call in progress
Own(i) == i <= Len(workers)

Without(ws, k) == SubSeq(ws, 1, k - 1) \o SubSeq(ws, k + 1, Len(ws))

\* the thread i becomes w; a Worker of an earlier call that has ended is
\* forgotten
ThreadAfter(i, w) ==
    /\ workers' = IF Own(i) THEN [workers EXCEPT ![i] = w] ELSE workers
    /\ stale' = IF Own(i) THEN stale
                ELSE IF w.st = "done" THEN Without(stale, i - Len(workers))
                ELSE [stale EXCEPT ![i - Len(workers)] = w]

\* lines 79-108: the page reaches parse_details
PageAccepted(resp) ==
    resp.kind = "page" /\ resp.page.parsable /\ ~resp.page.error_message

\* run and get_details, lines 54-63: the Worker issues the fetch of its
\* page and waits for the site
WorkerFetch(i) ==
    /\ Threads[i].st = "started"
    /\ ThreadAfter(i, [Threads[i] EXCEPT !.st = "fetching"])
    /\ net' = IF Own(i) THEN [net EXCEPT !.detail = @ + 1] ELSE net
    /\ UNCHANGED <<op, crit, config, abort, ipc, identifiers, calls, root,
                   matches, iret, result_queue, dpc, cached_url, cover_queue,
                   isbn_cache, cover_cache, early>>

\* get_details, lines 63-108: the site answers; a failed fetch, a page lxml
\* rejects and a page with an errorMessage node all end the Worker
WorkerPage(i, pages) ==
    /\ Threads[i].st = "fetching"
    /\ \E resp \in DetailResponses(pages) :
           ThreadAfter(i, [Threads[i] EXCEPT
               !.st = IF PageAccepted(resp) THEN "fetched" ELSE "done",
               !.page = IF resp.kind = "page" THEN Some(resp.page) ELSE None])
    /\ UNCHANGED <<op, crit, config, abort, ipc, identifiers, calls, root,
                   matches, iret, result_queue, dpc, cached_url, cover_queue,
                   isbn_cache, cover_cache, net, early>>

\* the follow-up fetch that has not answered
NoHead == [raised |-> TRUE, content_length |-> None]

\* parse_details of the Worker w, cover_r being what its parse_cover gives
ParseGiven(w, cover_r) ==
    parse_details(w.url, w.relevance, w.page[1], cover_r,
                  config.get_all_authors, config.genre_mappings)

\* parse_details of the Worker w when the follow-up fetch gives head
ParseWith(w, head) == ParseGiven(w, parse_cover(w.page[1], head))

\* what parse_cover can give the Worker w, over the answers to its fetch
CoverResults(w) == {parse_cover(w.page[1], head) : head \in HeadOutcomes}

\* where parse_details stands once its extractors have run: at line 188
\* with a record, at its end without one
AfterExtractors(w, r) ==
    [w EXCEPT !.st = IF r.mi # None THEN "parsed" ELSE "done",
              !.naverbook_id = r.naverbook_id,
              !.isbn = r.isbn,
              !.cover_url = r.cover_url,
              !.mi = r.mi]

\* where parse_details stands when it has gone as far as it goes without
\* the network, r being its run with the follow-up fetch unanswered
AfterLocalRun(w, r) ==
    IF r.head_fetch
    THEN [w EXCEPT !.st = "cover", !.naverbook_id = r.naverbook_id,
                   !.isbn = r.isbn]
    ELSE AfterExtractors(w, r)

\* parse_details on the fetched page, lines 110-186, as far as it goes
\* without the network: through its extractors, or to the follow-up fetch
\* parse_cover issues at line 318 and then waits for
WorkerParse(i) ==
    /\ Threads[i].st = "fetched"
    /\ ThreadAfter(i, AfterLocalRun(Threads[i], ParseWith(Threads[i], NoHead)))
    /\ net' = IF Own(i) /\ workers'[i].st = "cover"
              THEN [net EXCEPT !.head = @ + 1]
              ELSE net
    /\ UNCHANGED <<op, crit, config, abort, ipc, identifiers, calls, root,
                   matches, iret, result_queue, dpc, cached_url, cover_queue,
                   isbn_cache, cover_cache, early>>

\* lines 318-320 and 167-186: the follow-up fetch answers or fails,
\* parse_cover ends and the extractors after it run
WorkerCover(i) ==
    /\ Threads[i].st = "cover"
    /\ \E cover_r \in CoverResults(Threads[i]) :
           ThreadAfter(i, AfterExtractors(Threads[i], ParseGiven(Threads[i], cover_r)))
    /\ UNCHANGED <<op, crit, config, abort, ipc, identifiers, calls, root,
                   matches, iret, result_queue, dpc, cached_url, cover_queue,
                   isbn_cache, cover_cache, net, early>>

\* lines 188-190: `if self.naverbook_id: if self.isbn:`
IsbnCacheAfter(cache, w) ==
    IF Truthy(w.naverbook_id) /\ Truthy(w.isbn)
    THEN CachePut(cache, w.isbn[1], w.naverbook_id[1])
    ELSE cache

\* lines 188 and 191-193: `if self.naverbook_id: if self.cover_url:`
CoverCacheAfter(cache, w) ==
    IF Truthy(w.naverbook_id) /\ Truthy(w.cover_url)
    THEN CachePut(cache, w.naverbook_id[1], w.cover_url[1])
    ELSE cache

\* the statements of lines 188-197 with the put first; used to show that
\* the cached cover of an emitted record rests on their order
FinishOrderPutFirst == <<"put", "cache_isbn", "cache_cover">>

\* the statements of lines 188-197 in their order: the two cache writes,
\* each under the cache lock, then the put
FinishOrder == <<"cache_isbn", "cache_cover", "put">>

\* the statement `what` is the next one the Worker w runs
Due(w, what) == w.st = "parsed" /\ FinishOrder[w.ran + 1] = what

\* the Worker w with one more of these statements done
Advanced(w) ==
    [w EXCEPT !.ran = @ + 1,
              !.st = IF w.ran + 1 = Len(FinishOrder) THEN "done" ELSE "parsed"]

\* lines 188-190
WorkerCacheIsbn(i) ==
    /\ Due(Threads[i], "cache_isbn")
    /\ isbn_cache' = IsbnCacheAfter(isbn_cache, Threads[i])
    /\ ThreadAfter(i, Advanced(Threads[i]))
    /\ UNCHANGED <<op, crit, config, abort, ipc, identifiers, calls, root,
                   matches, iret, result_queue, dpc, cached_url, cover_queue,
                   cover_cache, net, early>>

\* lines 191-193
WorkerCacheCover(i) ==
    /\ Due(Threads[i], "cache_cover")
    /\ cover_cache' = CoverCacheAfter(cover_cache, Threads[i])
    /\ ThreadAfter(i, Advanced(Threads[i]))
    /\ UNCHANGED <<op, crit, config, abort, ipc, identifiers, calls, root,
                   matches, iret, result_queue, dpc, cached_url, cover_queue,
                   isbn_cache, net, early>>

\* lines 195-197: the record is cleaned and put on the queue the Worker was
\* made with; for a Worker of an earlier call that is the queue of that
\* call, which the call in progress does not read
WorkerPut(i) ==
    /\ Due(Threads[i], "put")
    /\ result_queue' = IF Own(i)
                       THEN Append(result_queue,
                                   clean_downloaded_metadata(Threads[i].mi[1]))
                       ELSE result_queue
    /\ ThreadAfter(i, Advanced(Threads[i]))
    /\ UNCHANGED <<op, crit, config, abort, ipc, identifiers, calls, root,
                   matches, iret, dpc, cached_url, cover_queue, isbn_cache,
                   cover_cache, net, early>>

(* ---------------------------------------------------------------------- *)
(* NaverBook.download_cover (src/__init__.py 217-251)                      *)
(* ---------------------------------------------------------------------- *)

\* lines 219-224: without a cached URL run identify on a private queue
CoverLookupDone(url) ==
    /\ cached_url' = url
    /\ IF url = None
       THEN dpc' = "identify" /\ ipc' = "lookup" /\ calls' = 1
       ELSE dpc' = "fetch" /\ ipc' = "idle" /\ calls' = 0

\* the host calls download_cover(log, result_queue, abort, title, authors,
\* identifiers); line 219 looks in the cache first
CallDownloadCover ==
    /\ Idle
    /\ \E c \in CoverCriteria :
           /\ FreshCall(c)
           /\ identifiers' = c.identifiers
           /\ CoverLookupDone(get_cached_cover_url(c.identifiers, isbn_cache,
                                                   cover_cache))
    /\ op' = "download_cover"

\* the identifiers of an emitted record, as mi.identifiers gives them
RecordIdentifiers(mi) ==
    [naverbook |-> mi.naverbook, isbn |-> mi.isbn, goodreads |-> None]

\* the first record of least source_relevance
FirstLeast(results) ==
    CHOOSE k \in 1..Len(results) :
        /\ \A j \in 1..Len(results) :
              results[k].source_relevance <= results[j].source_relevance
        /\ \A j \in 1..(k - 1) :
              results[j].source_relevance # results[k].source_relevance

\* results.sort(key=identify_results_keygen(...)): the host's order; among
\* the records of one identify call it falls back on source_relevance
RECURSIVE SortResults(_)

SortedFrom(results, i) ==
    <<results[i]>>
        \o SortResults(SubSeq(results, 1, i - 1) \o SubSeq(results, i + 1, Len(results)))

SortResults(results) ==
    IF results = <<>> THEN <<>> ELSE SortedFrom(results, FirstLeast(results))

\* lines 235-238: cached_url after the loop over the sorted results
RECURSIVE ScanResults(_, _, _, _)

ScanNext(results, found, isbns, covers) ==
    IF found # None THEN found ELSE ScanResults(Tail(results), found, isbns, covers)

ScanResults(results, url, isbns, covers) ==
    IF results = <<>> THEN url
    ELSE ScanNext(results,
                  get_cached_cover_url(RecordIdentifiers(results[1]), isbns, covers),
                  isbns, covers)

\* lines 239-241
CoverScanDone(url) ==
    /\ result_queue' = <<>>
    /\ cached_url' = url
    /\ dpc' = IF url = None THEN "returned" ELSE "fetch"

\* lines 225-241, once identify has returned
DownloadCoverResume ==
    /\ op = "download_cover"
    /\ dpc = "identify"
    /\ ipc \in {"returned", "raised"}
    /\ IF ipc = "raised"
       THEN dpc' = "raised" /\ UNCHANGED <<cached_url, result_queue>>
       ELSE IF abort
       THEN dpc' = "returned" /\ UNCHANGED <<cached_url, result_queue>>
       ELSE CoverScanDone(ScanResults(SortResults(result_queue), cached_url,
                                      isbn_cache, cover_cache))
    /\ UNCHANGED <<op, crit, config, abort, ipc, identifiers, calls, root,
                   matches, iret, workers, cover_queue, isbn_cache, cover_cache,
                   net, early, stale>>

\* lines 243-248: unless cancelled, ask for the image
DownloadCoverFetch ==
    /\ op = "download_cover"
    /\ dpc = "fetch"
    /\ IF abort
       THEN dpc' = "returned" /\ UNCHANGED net
       ELSE dpc' = "image" /\ net' = [net EXCEPT !.image = @ + 1]
    /\ UNCHANGED <<op, crit, config, abort, ipc, identifiers, calls, root,
                   matches, iret, workers, stale, result_queue, cached_url,
                   cover_queue, isbn_cache, cover_cache, early>>

\* lines 248-251: the image arrives and is put on the caller's queue, or the
\* fetch fails and is logged
DownloadCoverImage ==
    /\ op = "download_cover"
    /\ dpc = "image"
    /\ dpc' = "returned"
    /\ \E ok \in BOOLEAN :
           cover_queue' = IF ok THEN Append(cover_queue, cached_url[1])
                          ELSE cover_queue
    /\ UNCHANGED <<op, crit, config, abort, ipc, identifiers, calls, root,
                   matches, iret, workers, stale, result_queue, cached_url,
                   isbn_cache, cover_cache, net, early>>

(* ---------------------------------------------------------------------- *)
(* Specifications.                                                         *)
(* ---------------------------------------------------------------------- *)

Next ==
    \/ CallIdentify
    \/ CallDownloadCover
    \/ SetAbort
    \/ IdentifyLookup
    \/ IdentifyListing
    \/ IdentifyCheck
    \/ IdentifyStart
    \/ IdentifyJoin
    \/ \E i \in 1..Len(Threads) : WorkerFetch(i)
    \/ \E i \in 1..Len(Threads) : WorkerPage(i, CorePages)
    \/ \E i \in 1..Len(Threads) : WorkerParse(i)
    \/ \E i \in 1..Len(Threads) : WorkerCover(i)
    \/ \E i \in 1..Len(Threads) : WorkerCacheIsbn(i)
    \/ \E i \in 1..Len(Threads) : WorkerCacheCover(i)
    \/ \E i \in 1..Len(Threads) : WorkerPut(i)
    \/ DownloadCoverResume
    \/ DownloadCoverFetch
    \/ DownloadCoverImage

Spec == Init /\ [][Next]_vars

(* ---------------------------------------------------------------------- *)
(* The Worker on its own: one Worker that has fetched its page, for every  *)
(* page of DetailPages, both URLs and every stored configuration.          *)
(* ---------------------------------------------------------------------- *)

TitleTexts ==
    {<<"T">>,
     <<" ", " ">>,
     <<"T", " ", "(", "O", ")">>,
     <<"T", " ", "(", "#", "1", ")">>,
     <<"T", " ", "(", "S", " ", "#", "x", ")">>,
     <<"T", " ", "(", " ", "#", "1", ")">>,
     <<"T", " ", "(", "S", " ", "#", "1", ")">>,
     <<"T", " ", "(", "S", ",", " ", "#", "1", "-", "3", ")">>,
     <<"T", " ", "(", "S", " ", "#", "-", "3", ")">>,
     <<"T", " ", "(", "S", " ", "(", "d", ")", " ", "#", "U+FF12", ")">>,
     <<"\t", "T", " ", "(", "S", "\t", "#", "1", ".", "5", ")", "\n">>}

InfoBlank == <<" ">>
InfoTabs == <<"jeo", "ja", " ", "A", "\t", "|", "yeok", "ja", "\t", "K", "|", "P", "|", "2", "0", "1", "5", ".", "0", "2", ".", "3", "0">>
IsbnNodeValid == <<"I", "S", "B", "N", " ", "9", "7", "8", "0", "3", "8", "5", "3", "4", "0", "5", "8", "8">>
IsbnNodeInvalid == <<"1", "2", "3", "4", "5", "6", "7", "8", "9", "0">>

\* pages that differ in what the three required extractors find
RequiredPages ==
    {[o EXCEPT !.og_title = t, !.info = i] :
        o \in {PageFull, PageBare},
        t \in {<<>>} \cup {<<x>> : x \in TitleTexts},
        i \in {None, Some(InfoFull), Some(InfoNoDate), Some(InfoSingle),
               Some(InfoBlank), Some(InfoNoAuthor), Some(InfoTabs)}}

\* pages that differ in what the optional extractors find; a genre node is
\* the list of the texts of its links
OptionalPages ==
    {[PageFull EXCEPT !.info = i, !.isbn_nodes = n, !.rating = r,
                      !.comments = c, !.og_image = g, !.genres = s] :
        i \in {Some(InfoFull), Some(InfoSingle)},
        n \in {<<>>, <<IsbnNodeValid>>, <<IsbnNodeInvalid>>},
        r \in {<<>>, <<<<"7", ".", "5", "jeom">>>>, <<<<"U+FF11", "U+FF10">>>>,
               <<<<"x">>>>},
        c \in {"absent", "html", "raise"},
        g \in {<<>>, <<CoverUrl>>, <<<<>>>>},
        s \in {<<>>,
               <<<<>>>>,
               <<<<<<"\t", "N", "o", "v", "e", "l">>>>, <<>>,
                 <<<<"U+00E9", "s", "s", "a", "i">>>>,
                 <<<<"A", " ">>, <<"B">>>>>>}}

DetailPages == RequiredPages \cup OptionalPages

DetailIds == {TxtId12, TxtIdX}

\* identify was called with the catalog id alone, its Worker has fetched
InitDetail ==
    /\ op = "identify"
    /\ \E id \in DetailIds, pg \in DetailPages :
           /\ crit = [NoCriteria EXCEPT !.identifiers.naverbook = Some(id)]
           /\ identifiers = [NoIdentifiers EXCEPT !.naverbook = Some(id)]
           /\ matches = <<DetailUrl(id)>>
           /\ workers = <<[url |-> DetailUrl(id), relevance |-> 0,
                           st |-> "fetched", page |-> Some(pg),
                           naverbook_id |-> None, isbn |-> None,
                           cover_url |-> None, mi |-> None, ran |-> 0]>>
    /\ stale = <<>>
    /\ config \in Configs
    /\ abort = FALSE
    /\ ipc = "join"
    /\ calls = 1
    /\ root = None
    /\ iret = "None"
    /\ result_queue = <<>>
    /\ dpc = "none"
    /\ cached_url = None
    /\ cover_queue = <<>>
    /\ isbn_cache = {}
    /\ cover_cache = {}
    /\ net = [NoFetches EXCEPT !.detail = 1]
    /\ early = FALSE

NextDetail ==
    \/ \E i \in 1..Len(Threads) : WorkerParse(i)
    \/ \E i \in 1..Len(Threads) : WorkerCover(i)
    \/ \E i \in 1..Len(Threads) : WorkerCacheIsbn(i)
    \/ \E i \in 1..Len(Threads) : WorkerCacheCover(i)
    \/ \E i \in 1..Len(Threads) : WorkerPut(i)

SpecDetail == InitDetail /\ [][NextDetail]_vars

(* ---------------------------------------------------------------------- *)
(* Properties.                                                             *)
(* ---------------------------------------------------------------------- *)

\* the Worker i of the call in progress ends parse_details in this step
ParseStep(i) ==
    /\ workers[i].st \in {"fetched", "cover", "parsed"}
    /\ i <= Len(workers')
    /\ workers'[i].st = "done"

\* the Worker i takes the answer of its follow-up fetch in this step
CoverStep(i) ==
    /\ workers[i].st = "cover"
    /\ i <= Len(workers')
    /\ workers'[i].st # "cover"

\* the Worker i runs line 197 in this step
PutStep(i) ==
    /\ workers[i].st = "parsed"
    /\ i <= Len(workers')
    /\ workers'[i] # workers[i]
    /\ Len(result_queue') = Len(result_queue) + 1

\* one of the three required extractions of lines 113-129 raises or yields
\* nothing
RequiredFails(url, page, get_all_authors) ==
    \/ ~parse_naverbook_id(url).ok
    \/ ~Truthy(parse_naverbook_id(url).v)
    \/ ~Truthy(parse_title_series(page.og_title)[1])
    \/ ~parse_authors(page, get_all_authors).ok
    \/ ~Truthy(parse_authors(page, get_all_authors).v)

\* what an extractor leaves in its field: its value, None when it raised
FieldOf(r) == IF r.ok THEN r.v ELSE None

\* the optional fields of the record mi are what the extractors of lines
\* 144-184 give on the page, each on its own
OptionalAsExtracted(mi, page, genre_mappings) ==
    /\ mi.rating = FieldOf(parse_rating(page))
    /\ mi.comments = FieldOf(parse_comments(page))
    /\ mi.publisher = (IF parse_publisher_date(page).ok
                       THEN parse_publisher_date(page).v[1] ELSE None)
    /\ mi.pubdate = (IF parse_publisher_date(page).ok
                     THEN parse_publisher_date(page).v[2] ELSE None)
    /\ mi.tags = FieldOf(parse_tags(page, genre_mappings))
    /\ mi.language = Some("Korean")
    /\ (~parse_isbn(page).ok => mi.isbn = None)
    /\ (page.og_image = <<>> => ~mi.has_cover)

\* the cache resolves a cover URL for the identifiers: by the catalog id, or
\* by the ISBN's cached catalog id when no catalog id is given
CacheResolves(ids, isbn_map, cover_map) ==
    \E p \in cover_map :
        \/ ids.naverbook # None /\ p[1] = ids.naverbook[1]
        \/ ids.naverbook = None /\ ids.isbn # None
              /\ <<ids.isbn[1], p[1]>> \in isbn_map

\* the step in which the host calls download_cover
CoverCallStep ==
    /\ op' = "download_cover"
    /\ op # "download_cover" \/ dpc \in {"returned", "raised"}
    /\ dpc' \in {"identify", "fetch"}

\* a listing entry satisfies the matcher's two conditions
EntrySatisfies(e, title_tokens, author_tokens) ==
    /\ title_tokens = <<>>
          \/ (e.a # <<>>
                /\ \E i \in 1..Len(title_tokens) :
                       Contains(lower(e.a[1].text), lower(title_tokens[i])))
    /\ author_tokens = <<>>
          \/ \E i \in 1..Len(author_tokens) :
                 Contains(lower(Join(e.authors, <<" ">>)), lower(author_tokens[i]))

\* the first entry of the listing that satisfies them
FirstSatisfying(listing, title_tokens, author_tokens) ==
    CHOOSE k \in 1..Len(listing) :
        /\ EntrySatisfies(listing[k], title_tokens, author_tokens)
        /\ \A j \in 1..(k - 1) : ~EntrySatisfies(listing[j], title_tokens, author_tokens)

\* the link of an entry: None without a title link or without an href
EntryLink(e) == IF e.a = <<>> THEN None ELSE e.a[1].href

\* C1: an identify invocation that reaches line 137 uncancelled with no
\* candidate re-runs identify once with the identifiers cleared when it has
\* identifiers, a title and authors, and returns otherwise; the re-run has
\* no identifiers, so a top-level call makes at most 2 invocations.
C1_RetryOnce ==
    /\ [](calls <= 2)
    /\ [][(ipc = "check" /\ ipc' # "check" /\ ~abort /\ matches = <<>>)
             => IF identifiers # NoIdentifiers /\ crit.title # None
                      /\ crit.title[1] # <<>> /\ crit.authors # <<>>
                THEN ipc' = "lookup" /\ calls' = calls + 1
                        /\ identifiers' = NoIdentifiers
                ELSE ipc' = "returned" /\ calls' = calls]_vars

\* C1: the re-run has looked up too, found nothing and returned
C1_Witness ==
    calls = 2 /\ ipc = "returned" /\ matches = <<>> /\ ~abort /\ net.search = 2

\* C2: with a valid ISBN and no catalog id, an identify invocation whose
\* results-page fetch succeeded stands at line 137 with exactly one
\* candidate.
C2_IsbnSingleCandidate ==
    (ipc = "check" /\ calls = 1 /\ ~Truthy(crit.identifiers.naverbook)
        /\ check_isbn(crit.identifiers.isbn) # None /\ net.search = 1)
        => Len(matches) = 1

\* C3: once the cancellation signal is set while no Worker has started, no
\* further fetch is issued and no further record is emitted.
C3_NothingAfterEarlyAbort ==
    [][(early /\ early') => (net' = net /\ result_queue' = result_queue)]_vars

\* C4: every record on the result queue has a title, a non-empty author
\* list and a catalog id, and a Worker whose title, author or catalog-id
\* extraction raises or yields nothing puts no record on it.
C4_RequiredGate ==
    /\ [](\A k \in 1..Len(result_queue) :
              /\ result_queue[k].title # <<>>
              /\ result_queue[k].authors # <<>>
              /\ Truthy(result_queue[k].naverbook))
    /\ [][\A i \in 1..Len(workers) :
              (ParseStep(i) /\ RequiredFails(workers[i].url, workers[i].page[1],
                                             config.get_all_authors))
                 => result_queue' = result_queue]_vars

\* C4: a page with a title and a catalog id whose author line is blank has
\* been parsed and has left no record
C4_Witness ==
    \E i \in 1..Len(workers) :
        /\ workers[i].st = "done"
        /\ result_queue = <<>>
        /\ parse_naverbook_id(workers[i].url).ok
        /\ Truthy(parse_title_series(workers[i].page[1].og_title)[1])
        /\ workers[i].page[1].info = Some(InfoBlank)
        /\ workers[i].page[1].isbn_nodes # <<>>

\* C5: no exception leaves identify or download_cover.
C5_NeverRaises == ipc # "raised" /\ dpc # "raised"

\* C6: without a catalog id, a valid ISBN and any token of the title or the
\* first author, identify sends no query.
C6_NoRequestWithoutTokens ==
    (calls = 1 /\ ipc # "lookup"
        /\ ~Truthy(crit.identifiers.naverbook)
        /\ check_isbn(crit.identifiers.isbn) = None
        /\ get_title_tokens(crit.title, FALSE, TRUE) = <<>>
        /\ get_author_tokens(crit.authors, TRUE) = <<>>)
        => net.search = 0

\* C7: download_cover looks in the cache first: when the cache resolves a
\* cover URL for the identifiers it goes straight to the image fetch without
\* an identify invocation, otherwise it runs identify; a call that made no
\* identify invocation has issued nothing but at most one image fetch.
C7_CacheFirst ==
    /\ [][CoverCallStep
             => IF CacheResolves(crit'.identifiers, isbn_cache, cover_cache)
                THEN dpc' = "fetch" /\ calls' = 0 /\ ipc' = "idle"
                        /\ net' = NoFetches /\ workers' = <<>>
                ELSE dpc' = "identify" /\ calls' = 1 /\ ipc' = "lookup"]_vars
    /\ []((op = "download_cover" /\ calls = 0)
             => (net.search = 0 /\ net.detail = 0 /\ net.head = 0
                    /\ net.image <= 1 /\ workers = <<>>))

\* C7: a cover was fetched for an ISBN alone, through both caches, without
\* an identify invocation
C7_Witness ==
    /\ op = "download_cover" /\ dpc = "returned" /\ calls = 0
    /\ crit.identifiers.naverbook = None /\ crit.identifiers.isbn # None
    /\ net = [NoFetches EXCEPT !.image = 1]
    /\ cover_queue # <<>>

\* C8: after the matcher has run on a listing, the candidates are the link
\* of the first entry that satisfies both conditions, and there is none
\* only when no entry satisfies them.
C8_FirstSatisfyingEntry ==
    (ipc \in {"check", "raised"} /\ root # None)
        => /\ ipc = "check"
           /\ IF \E k \in 1..Len(root[1]) :
                     EntrySatisfies(root[1][k],
                                    get_title_tokens(crit.title, TRUE, FALSE),
                                    get_author_tokens(crit.authors, TRUE))
              THEN /\ Len(matches) = 1
                   /\ Some(matches[1]) =
                          EntryLink(root[1][FirstSatisfying(root[1],
                                        get_title_tokens(crit.title, TRUE, FALSE),
                                        get_author_tokens(crit.authors, TRUE))])
              ELSE matches = <<>>

\* C9: a Worker whose title, authors and catalog id are extracted puts
\* exactly one record on the queue whichever optional extractors raise, and
\* each optional field of the record is what its own extractor gives, None
\* when that extractor raised.
C9_OptionalIsolated ==
    [][\A i \in 1..Len(workers) :
           (ParseStep(i) /\ ~RequiredFails(workers[i].url, workers[i].page[1],
                                           config.get_all_authors))
              => /\ Len(result_queue') = Len(result_queue) + 1
                 /\ OptionalAsExtracted(result_queue'[Len(result_queue')],
                                        workers[i].page[1],
                                        config.genre_mappings)]_vars

\* C9: a record was emitted although the ISBN, rating, publisher/date,
\* comments and tags extractors all raised and the cover check failed
C9_Witness ==
    \E i \in 1..Len(workers) :
        /\ workers[i].st = "done"
        /\ Len(result_queue) = 1
        /\ ~parse_isbn(workers[i].page[1]).ok
        /\ ~parse_rating(workers[i].page[1]).ok
        /\ ~parse_publisher_date(workers[i].page[1]).ok
        /\ ~parse_comments(workers[i].page[1]).ok
        /\ ~parse_tags(workers[i].page[1], config.genre_mappings).ok
        /\ workers[i].page[1].og_image # <<>>
        /\ ~result_queue[1].has_cover
        /\ result_queue[1].language = Some("Korean")

\* C10: a record without a series carries the whole og:title text, trimmed,
\* as its title.
C10_WholeTitleWithoutSeries ==
    \A i \in 1..Len(workers), k \in 1..Len(result_queue) :
        (workers[i].st = "done" /\ workers[i].page # None
            /\ workers[i].relevance = result_queue[k].source_relevance
            /\ result_queue[k].series = None)
            => result_queue[k].title = Strip(workers[i].page[1].og_title[1])

\* the 0-based position, in the listing of the running invocation, of the
\* entry the matcher settled on
MatchedPosition ==
    FirstSatisfying(root[1], get_title_tokens(crit.title, TRUE, FALSE),
                    get_author_tokens(crit.authors, TRUE)) - 1

\* C11 as stated: while the invocation that matched a listing entry runs its
\* Workers, the relevance of every Worker and the source_relevance of every
\* record is the position of the matched entry in the listing.
C11_RankIsListingPosition ==
    (ipc \in {"start", "join"} /\ root # None)
        => /\ \A i \in 1..Len(workers) : workers[i].relevance = MatchedPosition
           /\ \A k \in 1..Len(result_queue) :
                  result_queue[k].source_relevance = MatchedPosition

\* C11: the relevance of a Worker is the index of its URL in matches, every
\* record carries the relevance of a finished Worker of its catalog id, and
\* as matches never holds more than one URL every rank is 0.
C11_RankIsCandidateIndex ==
    /\ Len(workers) <= Len(matches)
    /\ \A i \in 1..Len(workers) :
           workers[i].relevance = i - 1 /\ workers[i].url = matches[i]
    /\ \A k \in 1..Len(result_queue) :
           /\ result_queue[k].source_relevance = 0
           /\ \E i \in 1..Len(workers) :
                  /\ workers[i].st = "done"
                  /\ workers[i].relevance = result_queue[k].source_relevance
                  /\ parse_naverbook_id(workers[i].url).v = result_queue[k].naverbook

\* C11: the second entry of the listing was the matched one, and its record
\* is on the queue with rank 0
C11_Witness ==
    /\ ipc = "join"
    /\ root = Some(<<EntryOther, EntryHours>>)
    /\ Len(result_queue) = 1
    /\ result_queue[1].source_relevance = 0
    /\ result_queue[1].naverbook = Some(TxtId12)

\* the index text of a title in series notation: what follows its last '#',
\* without the closing ')'
IndexTextOf(title_text) ==
    Strip(Slice(RPartition(title_text, "#")[3], 0,
                Len(RPartition(title_text, "#")[3]) - 1))

\* the record mi of a page with the given title follows the range rule:
\* an index text with a '-' is read up to its first '-' only, and one that
\* begins with '-' is not series notation
FollowsRangeRule(mi, title_text) ==
    (Find(title_text, "#") > 0 /\ Find(IndexTextOf(title_text), "-") >= 0)
        => /\ mi.series # None
                 => mi.series_index =
                        ParseFloat(Strip(Partition(IndexTextOf(title_text), "-")[1]))
           /\ Find(IndexTextOf(title_text), "-") = 0 => mi.series = None

\* C12: the series index of a record whose index text holds a '-' is parsed
\* from the portion before the first '-' alone, an index text that begins
\* with '-' gives no series, and no record has a negative series index.
C12_RangeStartOnly ==
    /\ \A k \in 1..Len(result_queue) :
           result_queue[k].series_index # None
               => result_queue[k].series_index[1][1] >= 0
    /\ \A i \in 1..Len(workers), k \in 1..Len(result_queue) :
           (workers[i].st = "done" /\ workers[i].page # None
               /\ workers[i].relevance = result_queue[k].source_relevance)
               => FollowsRangeRule(result_queue[k],
                                   Strip(workers[i].page[1].og_title[1]))

\* identify has returned to its caller after creating Workers
ReturnedAfterLaunch == ipc = "returned" /\ workers # <<>>

\* C13: when identify has returned after launching Workers and the signal
\* is not set, every Worker has finished; from then on no record is added
\* to the queue, and download_cover drains the queue only then.
C13_ReturnMeansFinished ==
    /\ []((ReturnedAfterLaunch /\ ~abort) => WorkersDone)
    /\ [][(ReturnedAfterLaunch /\ ~abort /\ ipc' = "returned")
             => Len(result_queue') <= Len(result_queue)]_vars
    /\ [][(dpc = "identify" /\ dpc' \in {"fetch", "returned"} /\ ~abort
                /\ workers # <<>>)
             => WorkersDone]_vars

\* C13: identify has returned uncancelled with its Worker finished and the
\* Worker's record on the queue
C13_Witness ==
    /\ op = "identify" /\ ReturnedAfterLaunch /\ ~abort
    /\ WorkersDone
    /\ Len(result_queue) = Len(workers)

\* the follow-up fetch answered with a Content-Length above 1000
DeclaredOver(head) ==
    /\ ~head.raised
    /\ head.content_length # None
    /\ HeaderInt(head.content_length[1]) # None
    /\ HeaderInt(head.content_length[1])[1] > 1000

\* the record the step puts on the queue
Pushed == result_queue'[Len(result_queue')]

\* the answer head of the follow-up fetch explains what the step left in
\* the cover_url of the Worker i
CoverGives(i, head) ==
    ParseWith(workers[i], head).cover_url = workers'[i].cover_url

\* C14: a Worker's cover_url is set only by the answer of its follow-up
\* fetch, to the page's og:image URL, and every answer that explains it
\* declared a length above 1000; when the Worker puts a record with
\* has_cover set on the queue the cover cache already maps the record's
\* catalog id to that URL, and when it puts one without has_cover the cache
\* has nothing for the id; the cache changes only by the write of such a
\* URL under the Worker's catalog id, in a step that puts nothing.
C14_CoverCachedBeforePush ==
    [][\A i \in 1..Len(workers) :
           /\ (i <= Len(workers') /\ workers'[i].cover_url # workers[i].cover_url)
                 => /\ CoverStep(i)
                    /\ net.head >= 1
                    /\ workers'[i].cover_url = Some(workers[i].page[1].og_image[1])
                    /\ \A head \in HeadOutcomes :
                           CoverGives(i, head) => DeclaredOver(head)
           /\ PutStep(i)
                 => /\ Pushed.has_cover = Truthy(workers[i].cover_url)
                    /\ IF Pushed.has_cover
                       THEN <<Pushed.naverbook[1], workers[i].cover_url[1]>>
                                \in cover_cache
                       ELSE \A p \in cover_cache : p[1] # Pushed.naverbook[1]
                    /\ cover_cache' = cover_cache
           /\ cover_cache' # cover_cache
                 => /\ workers[i].st = "parsed"
                    /\ Truthy(workers[i].cover_url)
                    /\ cover_cache' = cover_cache \cup
                           {<<parse_naverbook_id(workers[i].url).v[1],
                              workers[i].cover_url[1]>>}
                    /\ result_queue' = result_queue]_vars

\* C14: a record with has_cover set is on the queue, its cover URL cached
\* under its catalog id after one follow-up fetch
C14_Witness ==
    \E i \in 1..Len(workers) :
        /\ workers[i].st = "done"
        /\ Len(result_queue) = 1
        /\ result_queue[1].has_cover
        /\ result_queue[1].naverbook = Some(TxtId12)
        /\ workers[i].cover_url = Some(CoverUrl)
        /\ cover_cache = {<<TxtId12, CoverUrl>>}
        /\ net.head = 1

\* C15: at every moment of a top-level call, its retry included, identify
\* holds at most one candidate, at most one Worker exists, at most one
\* detail page has been fetched and at most one record is on the queue.
C15_SingleTaskSingleRecord ==
    /\ Len(matches) <= 1
    /\ Len(workers) <= 1
    /\ net.detail <= 1
    /\ Len(result_queue) <= 1

\* C15: the retry without identifiers found both entries of its listing
\* matching; its one Worker has fetched one page and put one record
C15_Witness ==
    /\ calls = 2
    /\ ipc = "join"
    /\ root = Some(<<EntryHours, EntryHours>>)
    /\ Len(workers) = 1
    /\ WorkersDone
    /\ net.detail = 1
    /\ Len(result_queue) = 1

====
